---- MODULE Spec2Model ----
(***************************************************************************)
(* Model of the signal pipeline of StocksMind (src/ai_predictor.py):       *)
(* fetch_news_sentiment, and predict_signal with its length check, label   *)
(* construction, dropna, classifier fit/predict, sentiment fusion,         *)
(* threshold table and top-level exception handler.                        *)
(*                                                                         *)
(* Text (tickers, headline titles, keywords) is a sequence of one-letter   *)
(* strings, so that lower-casing and substring tests are computed.         *)
(* Probabilities and sentiment scores are integers in units of 1/Unit.     *)
(***************************************************************************)
EXTENDS Integers, Sequences, FiniteSets, TLC

----------------------------------------------------------------------------
(* Bounds of the model *)

\* longest provider news list (the code reads at most MaxHeadlines of it)
MaxNews == 6

\* bar counts MinBars .. MinBars + MaxExtra are explored one by one
MaxExtra == 8

\* number of steps of the grid of classifier probabilities
GridSteps == 20

----------------------------------------------------------------------------
(* Fixed-point scale: 1.0 is Unit.  60 is divisible by every headline      *)
(* count 1..5 and the factor 10 keeps score * 0.1 exact.                   *)

Unit == 60 * 10

----------------------------------------------------------------------------
(* Text *)

UpperCase ==
    <<"A", "B", "C", "D", "E", "F", "G", "H", "I", "J", "K", "L", "M", "N", "O", "P", "Q", "R", "S", "T", "U", "V", "W", "X", "Y", "Z">>

LowerCase ==
    <<"a", "b", "c", "d", "e", "f", "g", "h", "i", "j", "k", "l", "m", "n", "o", "p", "q", "r", "s", "t", "u", "v", "w", "x", "y", "z">>

\* str.lower() on one character
LowerChar(c) ==
    IF \E i \in 1..Len(UpperCase) : UpperCase[i] = c
    THEN LowerCase[CHOOSE i \in 1..Len(UpperCase) : UpperCase[i] = c]
    ELSE c

\* str.lower()
Lower(s) ==
    [i \in 1..Len(s) |-> LowerChar(s[i])]

\* variant of Contains: the test  s.startswith(w)
ContainsPrefix(s, w) ==
    Len(w) <= Len(s) /\ SubSeq(s, 1, Len(w)) = w

\* the Python test  w in s  on strings
Contains(s, w) ==
    \E i \in 0..(Len(s) - Len(w)) : SubSeq(s, i + 1, i + Len(w)) = w

RECURSIVE Replace(_, _)
\* s.replace(w, "") for a non-empty w: every occurrence, left to right
Replace(s, w) ==
    IF Len(s) < Len(w) THEN s
    ELSE IF SubSeq(s, 1, Len(w)) = w
         THEN Replace(SubSeq(s, Len(w) + 1, Len(s)), w)
         ELSE <<s[1]>> \o Replace(Tail(s), w)

SuffixNS ==
    <<".", "N", "S">>

TickerNS ==
    <<"T", "C", "S", ".", "N", "S">>

TickerUS ==
    <<"A", "A", "P", "L">>

Tickers ==
    {TickerNS, TickerUS}

PositiveWords ==
    { <<"s", "u", "r", "g", "e">>,
      <<"j", "u", "m", "p">>,
      <<"g", "a", "i", "n">>,
      <<"r", "e", "c", "o", "r", "d">>,
      <<"b", "u", "l", "l">>,
      <<"b", "u", "y">>,
      <<"p", "r", "o", "f", "i", "t">>,
      <<"g", "r", "o", "w", "t", "h">>,
      <<"b", "e", "a", "t">>,
      <<"s", "t", "r", "o", "n", "g">> }

NegativeWords ==
    { <<"d", "r", "o", "p">>,
      <<"f", "a", "l", "l">>,
      <<"l", "o", "s", "s">>,
      <<"c", "r", "a", "s", "h">>,
      <<"b", "e", "a", "r">>,
      <<"s", "e", "l", "l">>,
      <<"m", "i", "s", "s">>,
      <<"d", "o", "w", "n">>,
      <<"w", "e", "a", "k">>,
      <<"r", "i", "s", "k">> }

----------------------------------------------------------------------------
(* Headline titles the news provider may deliver *)

TitleSurge ==
    <<"C", "o", "m", "p", "a", "n", "y", " ", "s", "h", "a", "r", "e", "s", " ", "s", "u", "r", "g", "e", " ", "o", "n", " ", "r", "e", "c", "o", "r", "d", " ", "p", "r", "o", "f", "i", "t">>

TitleCraters ==
    <<"S", "t", "o", "c", "k", " ", "c", "r", "a", "t", "e", "r", "s", " ", "a", "m", "i", "d", " ", "f", "r", "a", "u", "d">>

TitleBoth ==
    <<"S", "h", "a", "r", "e", "s", " ", "F", "A", "L", "L", " ", "d", "e", "s", "p", "i", "t", "e", " ", "S", "t", "r", "o", "n", "g", " ", "d", "e", "m", "a", "n", "d">>

TitleDrop ==
    <<"M", "a", "r", "k", "e", "t", "s", " ", "D", "r", "o", "p">>

NoText ==
    <<>>

----------------------------------------------------------------------------
(* News items, as the provider's dictionaries.  title/link are "" when the  *)
(* key is missing or empty; content is "absent" (no key), "null" (key with  *)
(* value None) or "dict"; clickThroughUrl likewise inside content.          *)

Item(title, link, content, ctitle, ctu, curl) ==
    [title |-> title, link |-> link, content |-> content,
     ctitle |-> ctitle, ctu |-> ctu, curl |-> curl]

ItemSurge ==
    Item(TitleSurge, "u1", "absent", NoText, "absent", "")

ItemCraters ==
    Item(TitleCraters, "u2", "absent", NoText, "absent", "")

\* nested layout: title and link only inside content
ItemBoth ==
    Item(NoText, "", "dict", TitleBoth, "dict", "u3")

ItemDrop ==
    Item(TitleDrop, "", "absent", NoText, "absent", "")

\* neither a title nor a content: not collected
ItemUntitled ==
    Item(NoText, "u5", "absent", NoText, "absent", "")

\* nested layout whose clickThroughUrl is None: the title is there, reading
\* the link raises AttributeError
ItemBroken ==
    Item(NoText, "", "dict", TitleSurge, "null", "")

NewsItems ==
    {ItemSurge, ItemCraters, ItemBoth, ItemDrop, ItemUntitled, ItemBroken}

Titles ==
    {TitleSurge, TitleCraters, TitleBoth, TitleDrop}

\* base lists of up to two items, followed by copies of one filler item
NewsLists ==
    LET Short == {<<>>} \cup {<<a>> : a \in NewsItems}
                 \cup {<<a, b>> : a \in NewsItems, b \in NewsItems}
    IN  Short \cup
        { b \o [i \in 1..k |-> f] :
            b \in Short, f \in NewsItems, k \in 1..(MaxNews - 2) }

----------------------------------------------------------------------------
(* fetch_news_sentiment *)

\* number of leading news items analysed
MaxHeadlines == 5

\* news[:5]
Top(news) ==
    SubSeq(news, 1, IF Len(news) < MaxHeadlines THEN Len(news) ELSE MaxHeadlines)

\* variant of Contribution: the negative keywords are tested first
ContributionNegativeFirst(title) ==
    LET title_lower == Lower(title)
    IN  IF \E w \in NegativeWords : Contains(title_lower, w) THEN -1
        ELSE IF \E w \in PositiveWords : Contains(title_lower, w) THEN 1
        ELSE 0

\* keyword sentiment of one collected title
Contribution(title) ==
    LET title_lower == Lower(title)
    IN  IF \E w \in PositiveWords : Contains(title_lower, w) THEN 1
        ELSE IF \E w \in NegativeWords : Contains(title_lower, w) THEN -1
        ELSE 0

\* Contribution tabulated over the titles of the model
TitleScore ==
    [t \in Titles |-> Contribution(t)]

\* the title the loop body ends up with
ItemTitle(item) ==
    IF item.title = NoText /\ item.content # "absent"
    THEN item.ctitle
    ELSE item.title

\* the link the loop body ends up with
ItemLink(item) ==
    IF item.link = "" /\ item.content # "absent"
    THEN (IF item.ctu = "absent" THEN "" ELSE item.curl)
    ELSE item.link

\* the loop body raises AttributeError: .get on a None content or on a None
\* clickThroughUrl
ItemRaises(item) ==
    \/ item.title = NoText /\ item.content = "null"
    \/ item.link = "" /\ item.content = "null"
    \/ item.link = "" /\ item.content = "dict" /\ item.ctu = "null"

RECURSIVE ScoreLoop(_, _, _)
\* the for loop over news[:5]: acc is [raised, sum, headlines]
ScoreLoop(items, i, acc) ==
    IF i > Len(items) \/ acc.raised THEN acc
    ELSE LET item == items[i]
             title == ItemTitle(item)
         IN  IF ItemRaises(item)
             THEN [acc EXCEPT !.raised = TRUE]
             ELSE IF title # NoText
                  THEN ScoreLoop(items, i + 1,
                         [acc EXCEPT
                            !.headlines = Append(@, [title |-> title,
                                                     link |-> ItemLink(item)]),
                            !.sum = @ + TitleScore[title]])
                  ELSE ScoreLoop(items, i + 1, acc)

\* variant of Normalize: the sum is returned as it is
NormalizeNone(sum, headlines) ==
    sum * Unit

\* sentiment_score / len(headlines) when any headline was collected
Normalize(sum, headlines) ==
    IF headlines # <<>> THEN (sum * Unit) \div Len(headlines) ELSE sum * Unit

\* variant of NewsOnError: the exception leaves fetch_news_sentiment
NewsOnErrorReraise ==
    [score |-> 0, headlines |-> <<>>, escaped |-> TRUE]

\* what the except clause of fetch_news_sentiment returns
NewsOnError ==
    [score |-> 0, headlines |-> <<>>, escaped |-> FALSE]

\* variant of NeedsFallback: the retry does not look at the ticker
NeedsFallbackAlways(ticker, first) ==
    first.news = <<>>

\* A provider answer is [raises |-> BOOLEAN, news |-> list].  first is the
\* answer for ticker, second the answer for the ticker without ".NS".
NeedsFallback(ticker, first) ==
    first.news = <<>> /\ Contains(ticker, SuffixNS)

\* the list the loop runs over: the fallback answer when it was asked for
NewsUsed(ticker, first, second) ==
    IF NeedsFallback(ticker, first) THEN second.news ELSE first.news

\* the try body raises: a provider call fails or the loop body raises
NewsRaises(ticker, first, second) ==
    \/ first.raises
    \/ NeedsFallback(ticker, first) /\ second.raises
    \/ ScoreLoop(Top(NewsUsed(ticker, first, second)), 1,
                 [raised |-> FALSE, sum |-> 0, headlines |-> <<>>]).raised

\* the symbols the news provider is asked for, in order
NewsLookups(ticker, first) ==
    IF ~first.raises /\ NeedsFallback(ticker, first)
    THEN <<ticker, Replace(ticker, SuffixNS)>>
    ELSE <<ticker>>

fetch_news_sentiment(ticker, first, second) ==
    IF NewsRaises(ticker, first, second) THEN NewsOnError
    ELSE LET acc == ScoreLoop(Top(NewsUsed(ticker, first, second)), 1,
                       [raised |-> FALSE, sum |-> 0, headlines |-> <<>>])
         IN  [score |-> Normalize(acc.sum, acc.headlines),
              headlines |-> acc.headlines,
              escaped |-> FALSE]

----------------------------------------------------------------------------
(* Price history.  A history is [shape, n]: n daily bars whose closes       *)
(* follow the shape.  Row i (0-based) is the i-th bar of the frame.         *)

\* len(df) < 200
MinBars == 200

\* window of SMA_200, the longest warm-up of the feature columns
Sma200Window == 200

\* Close.shift(-5)
Horizon == 5

\* X.iloc[:-5]
TrainTail == 5

Shapes ==
    {"rising", "falling", "flat", "zigzag"}

\* bar counts explored: none, just too few, MinBars and a little more, and
\* the 300 bars of the rising-series scenario
BarCounts ==
    {0, MinBars - 1, 300} \cup (MinBars .. (MinBars + MaxExtra))

Histories ==
    [shape : Shapes, n : BarCounts]

NoHistory ==
    [shape |-> "none", n |-> 0]

\* df['Close'] at row i
Close(df, i) ==
    CASE df.shape = "rising"  -> 100 + i
      [] df.shape = "falling" -> 1000 - i
      [] df.shape = "zigzag"  -> 100 + (i % 2)
      [] OTHER                -> 100

\* (df['Close'].shift(-5) > df['Close']).astype(int): the shifted close of
\* the last Horizon rows is NaN and NaN > x is False
Target(df, i) ==
    IF i + Horizon <= df.n - 1 /\ Close(df, i + Horizon) > Close(df, i)
    THEN 1 ELSE 0

\* variant of RowDefined: the first Sma200Window rows are undefined
RowDefinedLate(df, i) ==
    i >= Sma200Window

\* no feature column of row i is NaN: the rolling mean of SMA_200 needs a
\* full window, every other column needs a shorter one
RowDefined(df, i) ==
    i + 1 >= Sma200Window

\* variant of Rows: no row is dropped
RowsNoDrop(df) ==
    0..(df.n - 1)

\* rows left by df.dropna(inplace=True)
Rows(df) ==
    {i \in 0..(df.n - 1) : RowDefined(df, i)}

\* variant of TrainRows: the classifier is fitted on X, not X.iloc[:-5]
TrainRowsAll(df) ==
    Rows(df)

\* X.iloc[:-5]: all rows left but the last TrainTail
TrainRows(df) ==
    {i \in Rows(df) : Cardinality({j \in Rows(df) : j > i}) >= TrainTail}

\* X.iloc[[-1]] and df.iloc[-1]
LatestRow(df) ==
    LET rows == Rows(df)
    IN  CHOOSE i \in rows : \A j \in rows : j <= i

\* Close of the latest row, tabulated over the histories (0 for a history
\* that keeps no row, whose latest row is never read)
LatestClose ==
    [h \in Histories |-> IF Rows(h) = {} THEN 0 ELSE Close(h, LatestRow(h))]

\* model.classes_ after fit: the distinct labels of y_train
Classes(df) ==
    {Target(df, i) : i \in TrainRows(df)}

\* model.fit rejects an empty training set (ValueError)
FitRejects(df) ==
    TrainRows(df) = {}

\* predict_proba(...)[0][1] needs a second class column (IndexError)
PredictRejects(df) ==
    Cardinality(Classes(df)) < 2

\* probabilities the forest may give for class 1
ProbGrid ==
    {(k * Unit) \div GridSteps : k \in 0..GridSteps}

EmptyFitMessage ==
    "Found array with 0 sample(s) while a minimum of 1 is required"

IndexMessage ==
    "index 1 is out of bounds for axis 0 with size 1"

\* str(e) of a failure of the price provider
HistoryErrors ==
    {"Connection timed out"}

\* str(e) of a failure while computing features or fitting: MemoryError()
\* carries no message
TrainErrors ==
    {""}

----------------------------------------------------------------------------
(* Fusion and policy *)

\* np.clip
Clip(x, lo, hi) ==
    IF x < lo THEN lo ELSE IF x > hi THEN hi ELSE x

\* variant of SentimentAdjustment: no clip
SentimentAdjustmentUnclipped(score) ==
    score \div 10

\* variant of SentimentAdjustment: the weight of the score is 0.3
SentimentAdjustmentWide(score) ==
    Clip((3 * score) \div 10, -((2 * Unit) \div 10), (2 * Unit) \div 10)

\* np.clip(sentiment_score * 0.1, -0.2, 0.2)
SentimentAdjustment(score) ==
    Clip(score \div 10, -((2 * Unit) \div 10), (2 * Unit) \div 10)

\* np.clip(rf_probability + sentiment_adjustment, 0, 1)
FinalProbability(p, score) ==
    Clip(p + SentimentAdjustment(score), 0, Unit)

\* variant of Signal: the STRONG BUY comparison is not strict
SignalInclusive(f) ==
    IF f * 100 >= 70 * Unit THEN "STRONG BUY"
    ELSE IF f * 100 > 55 * Unit THEN "BUY"
    ELSE IF f * 100 < 30 * Unit THEN "STRONG SELL"
    ELSE IF f * 100 < 45 * Unit THEN "SELL"
    ELSE "HOLD"

\* the if/elif chain of predict_signal
Signal(f) ==
    IF f * 100 > 70 * Unit THEN "STRONG BUY"
    ELSE IF f * 100 > 55 * Unit THEN "BUY"
    ELSE IF f * 100 < 30 * Unit THEN "STRONG SELL"
    ELSE IF f * 100 < 45 * Unit THEN "SELL"
    ELSE "HOLD"

TradingSignals ==
    {"STRONG BUY", "BUY", "HOLD", "SELL", "STRONG SELL"}

----------------------------------------------------------------------------
(* The latest row and generate_reasoning.  A row holds the columns that    *)
(* the reasoning and the metrics read; the indicator values are whatever   *)
(* the indicator library computed.                                         *)

FeatureRow(rsi, macd, macd_signal, close, sma_200, bb_lower, bb_upper) ==
    [RSI |-> rsi, MACD |-> macd, MACD_Signal |-> macd_signal,
     Close |-> close, SMA_200 |-> sma_200,
     BB_Lower |-> bb_lower, BB_Upper |-> bb_upper]

NoRow ==
    FeatureRow(0, 0, 0, 0, 0, 0, 0)

\* the latest rows a history may end in: its own last close with one of two
\* sets of indicator values
SampleRows(h) ==
    LET c == LatestClose[h]
    IN  { FeatureRow(50, 1, 0, c, c - 1, c - 10, c + 10),
          FeatureRow(71, 0, 1, c, c + 1, c - 10, c - 1) }

\* variant of RsiPart: 30 counts as oversold and 70 as overbought
RsiPartInclusive(row) ==
    IF row.RSI <= 30 THEN "RSI is oversold"
    ELSE IF row.RSI >= 70 THEN "RSI is overbought"
    ELSE "RSI is neutral"

\* the RSI sentence
RsiPart(row) ==
    IF row.RSI < 30 THEN "RSI is oversold"
    ELSE IF row.RSI > 70 THEN "RSI is overbought"
    ELSE "RSI is neutral"

\* the MACD sentence
MacdPart(row) ==
    IF row.MACD > row.MACD_Signal
    THEN "MACD is above the signal line (Bullish)."
    ELSE "MACD is below the signal line (Bearish)."

\* the SMA sentence
SmaPart(row) ==
    IF row.Close > row.SMA_200
    THEN "Price is above the 200-day SMA (Long-term Bullish)."
    ELSE "Price is below the 200-day SMA (Long-term Bearish)."

\* the Bollinger sentence, if any
BollingerPart(row) ==
    IF row.Close < row.BB_Lower
    THEN <<"Price broke below Lower Bollinger Band">>
    ELSE IF row.Close > row.BB_Upper
         THEN <<"Price broke above Upper Bollinger Band">>
         ELSE <<>>

\* the sentences of generate_reasoning, in the order they are appended
generate_reasoning(row) ==
    <<RsiPart(row), MacdPart(row), SmaPart(row)>> \o BollingerPart(row)

ConfidenceLine ==
    "Model Confidence"

\* the line appended after the confidence line, if any
SentimentLine(score, hl) ==
    IF score # 0
    THEN <<IF score > 0 THEN "News Sentiment: Bullish"
           ELSE "News Sentiment: Bearish">>
    ELSE IF hl = <<>> THEN <<"News: No recent news found.">>
         ELSE <<>>

\* the reason of a successful result
ReasonText(row, score, hl) ==
    generate_reasoning(row) \o <<ConfidenceLine>> \o SentimentLine(score, hl)

----------------------------------------------------------------------------
(* Returned dictionaries.  reason is the sequence of its text parts;       *)
(* metrics is a set of <<name, value>> pairs, {} for the empty dict.       *)

NeutralResult ==
    [signal |-> "NEUTRAL", confidence |-> 0,
     reason |-> <<"Insufficient data for analysis.">>, metrics |-> {},
     news |-> <<>>]

ErrorResult(msg) ==
    [signal |-> "ERROR", confidence |-> 0, reason |-> <<msg>>,
     metrics |-> {}, news |-> <<>>]

\* variant of SuccessResult: the confidence is the probability, not a percentage
SuccessResultFraction(row, score, f, hl) ==
    [signal |-> Signal(f), confidence |-> f,
     reason |-> ReasonText(row, score, hl),
     metrics |-> {<<"RSI", row.RSI>>, <<"MACD", row.MACD>>,
                  <<"SMA_200", row.SMA_200>>, <<"Close", row.Close>>},
     news |-> hl]

SuccessResult(row, score, f, hl) ==
    [signal |-> Signal(f), confidence |-> f * 100,
     reason |-> ReasonText(row, score, hl),
     metrics |-> {<<"RSI", row.RSI>>, <<"MACD", row.MACD>>,
                  <<"SMA_200", row.SMA_200>>, <<"Close", row.Close>>},
     news |-> hl]

NoResult ==
    [signal |-> "NONE", confidence |-> 0, reason |-> <<>>, metrics |-> {},
     news |-> <<>>]

----------------------------------------------------------------------------------------------------------------------------------------
(* predict_signal as a state machine: one invocation at a time, its        *)
(* position in pc.                                                         *)

VARIABLES
    pc,                 \* "idle", "fetch", "check", "train", "predict", "news", "fuse", "done"
    ticker,             \* the argument of the running invocation
    df,                 \* the fetched price history
    rf_probability,     \* model.predict_proba(latest_features)[0][1]
    sentiment_score,    \* first component of fetch_news_sentiment's result
    headlines,          \* second component of fetch_news_sentiment's result
    final_probability,  \* the fused probability
    result,             \* the returned dictionary
    raised,             \* the exception caught by the top-level handler
    newsFailed,         \* the except clause of fetch_news_sentiment ran
    historyCalls,       \* stock.history calls of this invocation
    fitCalls,           \* model.fit calls of this invocation
    newsCalls,          \* fetch_news_sentiment calls of this invocation
    X,                  \* rows of the feature table after dropna
    X_train,            \* rows the classifier is fitted on
    y_train,            \* their labels
    latest_features,    \* the row the classifier scores, -1 before
    latest_row,         \* df.iloc[-1], read by the reasoning and the metrics
    lookups             \* symbols the news provider was asked for, in order

VARIABLES
    news_first,         \* news provider's answer for the ticker
    news_second         \* news provider's answer for the ticker without ".NS"

VARIABLES
    cache,              \* entries of st.cache_data for predict_signal
    now,                \* the clock, in seconds
    world               \* what the providers currently hold, per ticker

VARIABLES
    locals,             \* local variables of each concurrent invocation
    models              \* the classifier instances on the heap

VARIABLES
    sms_env,            \* os.environ as send_sms_otp reads it
    sms_requests,       \* requests.post calls of the last send_sms_otp
    sms_result          \* what the last send_sms_otp returned

VARIABLES
    pl_call,            \* arguments and provider data of get_timeframe_pl
    pl_result           \* what it returned

VARIABLES
    holdings,           \* rows of portfolio_holdings
    transactions,       \* rows of transactions
    trade_message       \* what the trade form showed

VARIABLES
    users,              \* rows of users
    session,            \* st.session_state of one browser session
    submitted,          \* the form submitted in the last run of the page
    page                \* what main rendered in the last run

VARIABLES
    reg                 \* local variables of each concurrent registration

pipeVars ==
    <<pc, ticker, df, rf_probability, sentiment_score, headlines,
      final_probability, result, raised, newsFailed, historyCalls, fitCalls,
      newsCalls, X, X_train, y_train, latest_features, latest_row, lookups>>

probeVars ==
    <<news_first, news_second>>

cacheVars ==
    <<cache, now, world>>

procVars ==
    <<locals, models>>

smsVars ==
    <<sms_env, sms_requests, sms_result>>

plVars ==
    <<pl_call, pl_result>>

dbVars ==
    <<holdings, transactions, trade_message>>

authVars ==
    <<users, session, submitted, page>>

regVars ==
    <<reg>>

appVars ==
    <<smsVars, plVars, dbVars, authVars, regVars>>

vars ==
    <<pipeVars, probeVars, cacheVars, procVars, appVars>>

\* raised.at is the step the exception came from: "history" or "resource"
\* for a failure of the environment, "fit", "predict" or "news" for one the
\* step itself raises on the data in hand
NoError ==
    [is |-> FALSE, msg |-> "", at |-> "none"]

Error(msg, at) ==
    [is |-> TRUE, msg |-> msg, at |-> at]

\* answers of the news provider
NewsAnswers ==
    [raises : {FALSE}, news : NewsLists] \cup {[raises |-> TRUE, news |-> <<>>]}

NoAnswer ==
    [raises |-> FALSE, news |-> <<>>]

\* no invocation of predict_signal has run
PipeIdle ==
    /\ pc = "idle"
    /\ ticker = NoText
    /\ df = NoHistory
    /\ rf_probability = 0
    /\ sentiment_score = 0
    /\ headlines = <<>>
    /\ final_probability = 0
    /\ result = NoResult
    /\ raised = NoError
    /\ newsFailed = FALSE
    /\ historyCalls = 0
    /\ fitCalls = 0
    /\ newsCalls = 0
    /\ X = {}
    /\ X_train = {}
    /\ y_train = <<>>
    /\ latest_features = -1
    /\ latest_row = NoRow
    /\ lookups = <<>>

ProbeIdle ==
    /\ news_first = NoAnswer
    /\ news_second = NoAnswer

----------------------------------------------------------------------------
(* What the providers hold for one ticker: the price provider's answer,    *)
(* the probability the seeded forest gives on that history, the latest row *)
(* and the news provider's two answers.                                    *)

TTL == 3600

HistoryAnswer(raises, msg, h) ==
    [raises |-> raises, msg |-> msg, h |-> h]

World(hist, prob, row, first, second) ==
    [hist |-> hist, prob |-> prob, row |-> row, first |-> first,
     second |-> second]

\* a long history, a high probability and one positive headline
WorldUp ==
    World(HistoryAnswer(FALSE, "", [shape |-> "zigzag", n |-> 300]),
          (80 * Unit) \div 100,
          FeatureRow(50, 1, 0, 101, 100, 91, 111),
          [raises |-> FALSE, news |-> <<ItemSurge>>], NoAnswer)

\* a long history, a low probability and one negative headline
WorldDown ==
    World(HistoryAnswer(FALSE, "", [shape |-> "zigzag", n |-> 206]),
          (40 * Unit) \div 100,
          FeatureRow(29, 0, 1, 101, 102, 102, 111),
          [raises |-> FALSE, news |-> <<ItemDrop>>], NoAnswer)

\* too few bars
WorldShort ==
    World(HistoryAnswer(FALSE, "", [shape |-> "rising", n |-> 199]),
          0, NoRow, NoAnswer, NoAnswer)

\* the price provider fails
WorldBroken ==
    World(HistoryAnswer(TRUE, "Connection timed out", NoHistory),
          0, NoRow, NoAnswer, NoAnswer)

Worlds ==
    {WorldUp, WorldDown, WorldShort, WorldBroken}

NoEntry ==
    [present |-> FALSE, value |-> NoResult, at |-> 0]

CacheIdle ==
    /\ cache = [t \in Tickers |-> NoEntry]
    /\ now = 0
    /\ world = [t \in Tickers |-> WorldShort]

\* the concurrent invocations
Procs ==
    {1, 2}

NoLocals ==
    [pc |-> "idle", ticker |-> NoText, df |-> NoHistory, model |-> 0,
     rf_probability |-> 0, sentiment_score |-> 0, headlines |-> <<>>,
     result |-> NoResult]

NoModel ==
    [fitted |-> FALSE, data |-> NoHistory, prob |-> 0]

ProcsIdle ==
    /\ locals = [p \in Procs |-> NoLocals]
    /\ models = [m \in Procs |-> NoModel]

----------------------------------------------------------------------------
(* The rest of the application: the SMS sender, the profit and loss of a   *)
(* timeframe, the portfolio tables, the login page and the registration.   *)
(* Their state before any of them has run.                                 *)

\* the four environment variables send_sms_otp reads; "" is unset or empty
NoSmsEnv ==
    [FAST2SMS_API_KEY |-> "", TWILIO_ACCOUNT_SID |-> "",
     TWILIO_AUTH_TOKEN |-> "", TWILIO_PHONE_NUMBER |-> ""]

NoSmsResult ==
    [called |-> FALSE, sent |-> FALSE, msg |-> ""]

SmsIdle ==
    /\ sms_env = NoSmsEnv
    /\ sms_requests = <<>>
    /\ sms_result = NoSmsResult

\* the provider has a bar for each of the last listed + 1 days but those
\* of the trading halt (ages halt[1]..halt[2]); the call is made hour hours
\* after midnight
NoPlCall ==
    [timeframe |-> "", fails |-> FALSE, listed |-> -1, halt |-> <<1, 0>>,
     hour |-> 0]

NoPlResult ==
    [returned |-> FALSE, none |-> TRUE, start_price |-> 0,
     current_price |-> 0, change |-> 0, change_pct |-> 0, start_age |-> 0]

PlIdle ==
    /\ pl_call = NoPlCall
    /\ pl_result = NoPlResult

DbIdle ==
    /\ holdings = <<>>
    /\ transactions = <<>>
    /\ trade_message = ""

\* texts that stand for a session key that is not there, for Python's
\* None and for SQL's NULL
AbsentText ==
    <<"absent">>

NoneText ==
    <<"None">>

NullText ==
    <<"NULL">>

\* st.session_state: user_id 0 is a key that is not there
NoSession ==
    [user_id |-> 0, username |-> AbsentText, auth_step |-> "absent",
     auth_mobile |-> AbsentText, auth_otp |-> AbsentText,
     auth_msg |-> AbsentText]

\* the widget values of the run: the form that was submitted, its text
\* inputs and the OTP the run drew
NoForm ==
    [form |-> "none", identifier |-> NoText, password |-> "",
     mobile |-> NoText, otp_input |-> NoText, otp |-> NoText]

AuthIdle ==
    /\ users = <<>>
    /\ session = NoSession
    /\ submitted = NoForm
    /\ page = "none"

\* the concurrent registration calls
RegProcs ==
    {1, 2}

\* existing is the id of the row the SELECT of register_user fetched, 0
\* for none
NoReg ==
    [pc |-> "idle", kind |-> "none", username |-> NoText, mobile |-> NoText,
     existing |-> 0, returned |-> <<FALSE, "">>]

RegIdle ==
    reg = [p \in RegProcs |-> NoReg]

AppIdle ==
    /\ SmsIdle
    /\ PlIdle
    /\ DbIdle
    /\ AuthIdle
    /\ RegIdle

Init ==
    /\ PipeIdle
    /\ ProbeIdle
    /\ CacheIdle
    /\ ProcsIdle
    /\ AppIdle

\* variant of Catch: the handler starts the invocation again
CatchRetry(msg, at) ==
    /\ raised' = Error(msg, at)
    /\ result' = ErrorResult(msg)
    /\ pc' = "fetch"

\* the except clause of predict_signal
Catch(msg, at) ==
    /\ raised' = Error(msg, at)
    /\ result' = ErrorResult(msg)
    /\ pc' = "done"

\* a caller invokes predict_signal(t)
Call(t) ==
    /\ pc = "idle"
    /\ pc' = "fetch"
    /\ ticker' = t
    /\ df' = NoHistory
    /\ rf_probability' = 0
    /\ sentiment_score' = 0
    /\ headlines' = <<>>
    /\ final_probability' = 0
    /\ result' = NoResult
    /\ raised' = NoError
    /\ newsFailed' = FALSE
    /\ historyCalls' = 0
    /\ fitCalls' = 0
    /\ newsCalls' = 0
    /\ X' = {}
    /\ X_train' = {}
    /\ y_train' = <<>>
    /\ latest_features' = -1
    /\ latest_row' = NoRow
    /\ lookups' = <<>>
    /\ UNCHANGED <<probeVars, cacheVars, procVars>>
    /\ UNCHANGED appVars

\* stock.history(period="2y") with the price provider answering answer
FetchHistoryWith(answer) ==
    /\ pc = "fetch"
    /\ historyCalls' = historyCalls + 1
    /\ IF answer.raises
       THEN /\ Catch(answer.msg, "history")
            /\ UNCHANGED df
       ELSE /\ df' = answer.h
            /\ pc' = "check"
            /\ UNCHANGED <<result, raised>>
    /\ UNCHANGED <<ticker, rf_probability, sentiment_score, headlines,
                   final_probability, newsFailed, fitCalls, newsCalls,
                   X, X_train, y_train, latest_features, latest_row, lookups>>
    /\ UNCHANGED <<probeVars, cacheVars, procVars>>
    /\ UNCHANGED appVars

\* the provider answers with a history or fails
FetchHistory ==
    /\ pc = "fetch"
    /\ \/ \E h \in Histories : FetchHistoryWith(HistoryAnswer(FALSE, "", h))
       \/ \E msg \in HistoryErrors :
            FetchHistoryWith(HistoryAnswer(TRUE, msg, NoHistory))

\* variant of InsufficientData: only an empty frame is rejected
InsufficientDataEmptyOnly(h) ==
    h.n = 0

\* len(df) < 200
InsufficientData(h) ==
    h.n < MinBars

\* if len(df) < 200: return NEUTRAL
CheckLength ==
    /\ pc = "check"
    /\ IF InsufficientData(df)
       THEN /\ result' = NeutralResult
            /\ pc' = "done"
       ELSE /\ pc' = "train"
            /\ UNCHANGED result
    /\ UNCHANGED <<ticker, df, rf_probability, sentiment_score, headlines,
                   final_probability, raised, newsFailed, historyCalls,
                   fitCalls, newsCalls,
                   X, X_train, y_train, latest_features, latest_row, lookups>>
    /\ UNCHANGED <<probeVars, cacheVars, procVars>>
    /\ UNCHANGED appVars

\* feature columns, Target, dropna and model.fit(X_train, y_train), the
\* indicators of the last bar being row
TrainModelWith(row) ==
    /\ pc = "train"
    /\ X' = Rows(df)
    /\ X_train' = TrainRows(df)
    /\ y_train' = [i \in TrainRows(df) |-> Target(df, i)]
    /\ latest_row' = row
    /\ fitCalls' = fitCalls + 1
    /\ IF FitRejects(df)
       THEN Catch(EmptyFitMessage, "fit")
       ELSE /\ pc' = "predict"
            /\ UNCHANGED <<result, raised>>
    /\ UNCHANGED <<ticker, df, rf_probability, sentiment_score, headlines,
                   final_probability, newsFailed, historyCalls, newsCalls,
                   latest_features, lookups>>
    /\ UNCHANGED <<probeVars, cacheVars, procVars>>
    /\ UNCHANGED appVars

\* the step runs on any indicators, or the process runs out of a resource
TrainModel ==
    /\ pc = "train"
    /\ \/ \E row \in SampleRows(df) : TrainModelWith(row)
       \/ \E msg \in TrainErrors :
            /\ Catch(msg, "resource")
            /\ UNCHANGED <<ticker, df, rf_probability, sentiment_score,
                           headlines, final_probability, newsFailed,
                           historyCalls, fitCalls, newsCalls, X, X_train,
                           y_train, latest_features, latest_row, lookups>>
            /\ UNCHANGED <<probeVars, cacheVars, procVars>>
            /\ UNCHANGED appVars

\* latest_features = X.iloc[[-1]]; model.predict_proba(latest_features)[0][1],
\* the fitted forest giving p
PredictWith(p) ==
    /\ pc = "predict"
    /\ latest_features' = LatestRow(df)
    /\ IF PredictRejects(df)
       THEN /\ Catch(IndexMessage, "predict")
            /\ UNCHANGED rf_probability
       ELSE /\ rf_probability' = p
            /\ pc' = "news"
            /\ UNCHANGED <<result, raised>>
    /\ UNCHANGED <<ticker, df, sentiment_score, headlines, final_probability,
                   newsFailed, historyCalls, fitCalls, newsCalls,
                   X, X_train, y_train, latest_row, lookups>>
    /\ UNCHANGED <<probeVars, cacheVars, procVars>>
    /\ UNCHANGED appVars

\* the forest gives any probability of the grid
Predict ==
    /\ pc = "predict"
    /\ \E p \in ProbGrid : PredictWith(p)

\* sentiment_score, headlines = fetch_news_sentiment(ticker), the news
\* provider answering first and, when asked again, second
FetchNewsWith(first, second) ==
    LET r == fetch_news_sentiment(ticker, first, second)
        failed == NewsRaises(ticker, first, second)
    IN  /\ pc = "news"
        /\ newsCalls' = newsCalls + 1
        /\ lookups' = NewsLookups(ticker, first)
        /\ IF r.escaped
           THEN /\ Catch("News Error", "news")
                /\ newsFailed' = TRUE
                /\ UNCHANGED <<sentiment_score, headlines>>
           ELSE /\ sentiment_score' = r.score
                /\ headlines' = r.headlines
                /\ newsFailed' = failed
                /\ pc' = "fuse"
                /\ UNCHANGED <<result, raised>>
        /\ UNCHANGED <<ticker, df, rf_probability, final_probability,
                       historyCalls, fitCalls,
                       X, X_train, y_train, latest_features, latest_row>>
        /\ UNCHANGED <<probeVars, cacheVars, procVars>>
        /\ UNCHANGED appVars

\* the provider answers with any news list or fails
FetchNews ==
    /\ pc = "news"
    /\ \E first \in NewsAnswers :
       \E second \in (IF ~first.raises /\ NeedsFallback(ticker, first)
                      THEN NewsAnswers ELSE {first}) :
          FetchNewsWith(first, second)

\* clip, threshold table, reasoning, del of the frames and the returned
\* dictionary
Fuse ==
    /\ pc = "fuse"
    /\ final_probability' = FinalProbability(rf_probability, sentiment_score)
    /\ result' = SuccessResult(latest_row, sentiment_score,
                               final_probability', headlines)
    /\ X' = {}
    /\ X_train' = {}
    /\ y_train' = <<>>
    /\ pc' = "done"
    /\ UNCHANGED <<ticker, df, rf_probability, sentiment_score, headlines,
                   raised, newsFailed, historyCalls, fitCalls, newsCalls,
                   latest_features, latest_row, lookups>>
    /\ UNCHANGED <<probeVars, cacheVars, procVars>>
    /\ UNCHANGED appVars

\* the caller takes the result
Return ==
    /\ pc = "done"
    /\ pc' = "idle"
    /\ UNCHANGED <<ticker, df, rf_probability, sentiment_score, headlines,
                   final_probability, result, raised, newsFailed,
                   historyCalls, fitCalls, newsCalls,
                   X, X_train, y_train, latest_features, latest_row, lookups>>
    /\ UNCHANGED <<probeVars, cacheVars, procVars>>
    /\ UNCHANGED appVars

Next ==
    \/ \E t \in Tickers : Call(t)
    \/ FetchHistory
    \/ CheckLength
    \/ TrainModel
    \/ Predict
    \/ FetchNews
    \/ Fuse
    \/ Return

Spec ==
    Init /\ [][Next]_vars

----------------------------------------------------------------------------
(* Fusion and policy as a pure function: Fuse applied to every pair of a   *)
(* model probability in [0,1] and a sentiment score in a range wider than  *)
(* the scorer's.                                                           *)

\* model probabilities 0, 1/FineSteps, ..., 1
FineSteps == 60

\* sentiment scores run over -MaxScore/12 .. MaxScore/12
MaxScore == 36

ProbFine ==
    {(k * Unit) \div FineSteps : k \in 0..FineSteps}

ScoreWide ==
    {(k * Unit) \div 12 : k \in (-MaxScore)..MaxScore}

\* the invocation stands before the fusion step, on a history that passed
\* the fit and the scoring
AtFuse ==
    /\ pc = "fuse"
    /\ ticker = TickerUS
    /\ df = [shape |-> "zigzag", n |-> 300]
    /\ final_probability = 0
    /\ result = NoResult
    /\ raised = NoError
    /\ newsFailed = FALSE
    /\ historyCalls = 1
    /\ fitCalls = 1
    /\ newsCalls = 1
    /\ X = Rows(df)
    /\ X_train = TrainRows(df)
    /\ y_train = [i \in TrainRows(df) |-> Target(df, i)]
    /\ latest_features = LatestRow(df)
    /\ lookups = <<ticker>>
    /\ ProbeIdle
    /\ CacheIdle
    /\ ProcsIdle
    /\ AppIdle

InitFusion ==
    /\ AtFuse
    /\ rf_probability \in ProbFine
    /\ sentiment_score \in ScoreWide
    /\ headlines = <<>>
    /\ latest_row \in SampleRows(df)

NextFusion ==
    Fuse

SpecFusion ==
    InitFusion /\ [][NextFusion]_vars

----------------------------------------------------------------------------
(* The reasoning as a pure function: Fuse applied to every latest row of   *)
(* a grid that holds the boundaries of each comparison.                    *)

\* RSI values run over 30 - RsiMargin .. 30 + RsiMargin and the same
\* around 70
RsiMargin == 1

RsiValues ==
    ((30 - RsiMargin)..(30 + RsiMargin)) \cup {50}
        \cup ((70 - RsiMargin)..(70 + RsiMargin))

\* lower and upper band around a close of 100: inside, on a band, outside
Bands ==
    {<<90, 110>>, <<100, 110>>, <<101, 110>>, <<90, 100>>, <<90, 99>>}

WideRows ==
    { FeatureRow(r, m, 0, 100, sma, b[1], b[2]) :
        r \in RsiValues, m \in {-1, 0, 1}, sma \in {99, 100, 101},
        b \in Bands }

\* scores and headlines the scorer can return
SentimentSamples ==
    { <<0, <<>> >>,
      <<0, <<[title |-> TitleCraters, link |-> "u2"]>> >>,
      <<Unit, <<[title |-> TitleSurge, link |-> "u1"]>> >>,
      <<-Unit, <<[title |-> TitleDrop, link |-> ""]>> >> }

InitReasoning ==
    /\ AtFuse
    /\ rf_probability \in {(k * Unit) \div 4 : k \in 0..4}
    /\ \E sh \in SentimentSamples :
          /\ sentiment_score = sh[1]
          /\ headlines = sh[2]
    /\ latest_row \in WideRows

NextReasoning ==
    Fuse

SpecReasoning ==
    InitReasoning /\ [][NextReasoning]_vars

----------------------------------------------------------------------------
(* fetch_news_sentiment as a pure function of the ticker and the news      *)
(* provider's answers.                                                     *)

\* the invocation stands before the news step
AtNews ==
    /\ pc = "news"
    /\ df = [shape |-> "zigzag", n |-> 206]
    /\ rf_probability = Unit \div 2
    /\ sentiment_score = 0
    /\ headlines = <<>>
    /\ final_probability = 0
    /\ result = NoResult
    /\ raised = NoError
    /\ newsFailed = FALSE
    /\ historyCalls = 1
    /\ fitCalls = 1
    /\ newsCalls = 0
    /\ X = Rows(df)
    /\ X_train = TrainRows(df)
    /\ y_train = [i \in TrainRows(df) |-> Target(df, i)]
    /\ latest_features = LatestRow(df)
    /\ latest_row \in SampleRows(df)
    /\ lookups = <<>>
    /\ CacheIdle
    /\ ProcsIdle
    /\ AppIdle

InitNews ==
    /\ AtNews
    /\ ticker \in Tickers
    /\ \/ news_first \in NewsAnswers /\ news_second = NoAnswer
       \/ news_first = NoAnswer /\ news_second \in NewsAnswers

\* the news step on the answers held in news_first and news_second
NewsProbe ==
    FetchNewsWith(news_first, news_second)

NextNews ==
    NewsProbe

SpecNews ==
    InitNews /\ [][NextNews]_vars

----------------------------------------------------------------------------
(* predict_signal behind st.cache_data(ttl=3600): the providers hold one   *)
(* world per ticker, the clock advances, and a call either takes the       *)
(* stored entry of its ticker or runs the steps above on the world.        *)

\* the clock advances in steps of half the time to live, MaxTicks times
MaxTicks == 3

TickSeconds == TTL \div 2

\* variant of Fresh: an entry is still served at the age of exactly TTL
FreshInclusive(entry, time) ==
    entry.present /\ time - entry.at <= TTL

\* an entry is served while it is younger than the time to live
Fresh(entry, time) ==
    entry.present /\ time - entry.at < TTL

\* predict_signal(t) through the cache: a fresh entry of t is returned
\* without running the body, otherwise the body starts
CachedCall(t) ==
    /\ pc = "idle"
    /\ ticker' = t
    /\ df' = NoHistory
    /\ rf_probability' = 0
    /\ sentiment_score' = 0
    /\ headlines' = <<>>
    /\ final_probability' = 0
    /\ raised' = NoError
    /\ newsFailed' = FALSE
    /\ historyCalls' = 0
    /\ fitCalls' = 0
    /\ newsCalls' = 0
    /\ X' = {}
    /\ X_train' = {}
    /\ y_train' = <<>>
    /\ latest_features' = -1
    /\ latest_row' = NoRow
    /\ lookups' = <<>>
    /\ IF Fresh(cache[t], now)
       THEN /\ result' = cache[t].value
            /\ pc' = "done"
       ELSE /\ result' = NoResult
            /\ pc' = "fetch"
    /\ UNCHANGED <<probeVars, cacheVars, procVars>>
    /\ UNCHANGED appVars

\* the steps of the body, the providers answering from the ticker's world
CachedFetchHistory ==
    /\ pc = "fetch"
    /\ FetchHistoryWith(world[ticker].hist)

CachedTrainModel ==
    /\ pc = "train"
    /\ TrainModelWith(world[ticker].row)

CachedPredict ==
    /\ pc = "predict"
    /\ PredictWith(world[ticker].prob)

CachedFetchNews ==
    /\ pc = "news"
    /\ FetchNewsWith(world[ticker].first, world[ticker].second)

\* variant of CachedReturn: only a result with a trading signal is stored
CachedReturnTradingOnly ==
    /\ pc = "done"
    /\ pc' = "idle"
    /\ cache' = IF historyCalls > 0 /\ result.signal \in TradingSignals
                THEN [cache EXCEPT ![ticker] =
                        [present |-> TRUE, value |-> result, at |-> now]]
                ELSE cache
    /\ UNCHANGED <<ticker, df, rf_probability, sentiment_score, headlines,
                   final_probability, result, raised, newsFailed,
                   historyCalls, fitCalls, newsCalls,
                   X, X_train, y_train, latest_features, latest_row, lookups>>
    /\ UNCHANGED <<now, world>>
    /\ UNCHANGED <<probeVars, procVars>>
    /\ UNCHANGED appVars

\* the body returned: its value is stored under the ticker with the time;
\* a value taken from the cache is handed on as it is
CachedReturn ==
    /\ pc = "done"
    /\ pc' = "idle"
    /\ cache' = IF historyCalls > 0
                THEN [cache EXCEPT ![ticker] =
                        [present |-> TRUE, value |-> result, at |-> now]]
                ELSE cache
    /\ UNCHANGED <<ticker, df, rf_probability, sentiment_score, headlines,
                   final_probability, result, raised, newsFailed,
                   historyCalls, fitCalls, newsCalls,
                   X, X_train, y_train, latest_features, latest_row, lookups>>
    /\ UNCHANGED <<now, world>>
    /\ UNCHANGED <<probeVars, procVars>>
    /\ UNCHANGED appVars

\* time passes
Tick ==
    /\ now < MaxTicks * TickSeconds
    /\ now' = now + TickSeconds
    /\ UNCHANGED <<cache, world>>
    /\ UNCHANGED <<pipeVars, probeVars, procVars>>
    /\ UNCHANGED appVars

\* the providers come to hold other data for t; an invocation lasts seconds
\* and sees one world
ProviderChange(t, w) ==
    /\ pc = "idle"
    /\ world[t] # w
    /\ world' = [world EXCEPT ![t] = w]
    /\ UNCHANGED <<cache, now>>
    /\ UNCHANGED <<pipeVars, probeVars, procVars>>
    /\ UNCHANGED appVars

NextCache ==
    \/ \E t \in Tickers : CachedCall(t)
    \/ CachedFetchHistory
    \/ CheckLength
    \/ CachedTrainModel
    \/ CachedPredict
    \/ CachedFetchNews
    \/ Fuse
    \/ CachedReturn
    \/ Tick
    \/ \E t \in Tickers : \E w \in Worlds : ProviderChange(t, w)

SpecCache ==
    Init /\ [][NextCache]_vars

\* what predict_signal(t) returns when it runs alone on the world w
RunAlone(t, w) ==
    IF w.hist.raises THEN ErrorResult(w.hist.msg)
    ELSE IF InsufficientData(w.hist.h) THEN NeutralResult
    ELSE IF FitRejects(w.hist.h) THEN ErrorResult(EmptyFitMessage)
    ELSE IF PredictRejects(w.hist.h) THEN ErrorResult(IndexMessage)
    ELSE LET r == fetch_news_sentiment(t, w.first, w.second)
         IN  IF r.escaped THEN ErrorResult("News Error")
             ELSE SuccessResult(w.row, r.score,
                                FinalProbability(w.prob, r.score),
                                r.headlines)

----------------------------------------------------------------------------
(* Two invocations of predict_signal for different symbols, their steps    *)
(* interleaved.  Every name of the body is a local of its invocation, and  *)
(* the classifier is an object the invocation creates.                     *)

\* the symbol process p asks for
TickerOf(p) ==
    IF p = 1 THEN TickerNS ELSE TickerUS

\* variant of ModelOf: both invocations fit and score one classifier object
ModelOfShared(p) ==
    1

\* model = RandomForestClassifier(...): an object of the invocation's own
ModelOf(p) ==
    p

InitConcurrent ==
    /\ PipeIdle
    /\ ProbeIdle
    /\ cache = [t \in Tickers |-> NoEntry]
    /\ now = 0
    /\ world \in [Tickers -> Worlds]
    /\ ProcsIdle
    /\ AppIdle

\* the result leaves the invocation
PEnd(p, res) ==
    locals' = [locals EXCEPT ![p].pc = "done", ![p].result = res]

PCall(p) ==
    /\ locals[p].pc = "idle"
    /\ locals' = [locals EXCEPT ![p] =
                    [NoLocals EXCEPT !.pc = "fetch", !.ticker = TickerOf(p)]]
    /\ UNCHANGED models

\* stock.history and the length check
PFetch(p) ==
    LET w == world[locals[p].ticker]
    IN  /\ locals[p].pc = "fetch"
        /\ IF w.hist.raises THEN PEnd(p, ErrorResult(w.hist.msg))
           ELSE IF InsufficientData(w.hist.h) THEN PEnd(p, NeutralResult)
           ELSE locals' = [locals EXCEPT ![p].pc = "train",
                                         ![p].df = w.hist.h]
        /\ UNCHANGED models

\* the classifier is created and fitted; seeded, it is a function of the
\* data it was fitted on
PFit(p) ==
    LET w == world[locals[p].ticker]
        m == ModelOf(p)
    IN  /\ locals[p].pc = "train"
        /\ IF FitRejects(locals[p].df)
           THEN /\ PEnd(p, ErrorResult(EmptyFitMessage))
                /\ UNCHANGED models
           ELSE /\ models' = [models EXCEPT ![m] =
                                [fitted |-> TRUE, data |-> locals[p].df,
                                 prob |-> w.prob]]
                /\ locals' = [locals EXCEPT ![p].pc = "predict",
                                            ![p].model = m]

\* model.predict_proba(latest_features)[0][1] on the invocation's model
PPredict(p) ==
    /\ locals[p].pc = "predict"
    /\ IF PredictRejects(models[locals[p].model].data)
       THEN PEnd(p, ErrorResult(IndexMessage))
       ELSE locals' = [locals EXCEPT
                         ![p].pc = "news",
                         ![p].rf_probability = models[locals[p].model].prob]
    /\ UNCHANGED models

PNews(p) ==
    LET w == world[locals[p].ticker]
        r == fetch_news_sentiment(locals[p].ticker, w.first, w.second)
    IN  /\ locals[p].pc = "news"
        /\ IF r.escaped THEN PEnd(p, ErrorResult("News Error"))
           ELSE locals' = [locals EXCEPT ![p].pc = "fuse",
                                         ![p].sentiment_score = r.score,
                                         ![p].headlines = r.headlines]
        /\ UNCHANGED models

PFuse(p) ==
    LET l == locals[p]
    IN  /\ l.pc = "fuse"
        /\ PEnd(p, SuccessResult(world[l.ticker].row, l.sentiment_score,
                      FinalProbability(l.rf_probability, l.sentiment_score),
                      l.headlines))
        /\ UNCHANGED models

PReturn(p) ==
    /\ locals[p].pc = "done"
    /\ locals' = [locals EXCEPT ![p].pc = "idle"]
    /\ UNCHANGED models

NextConcurrent ==
    \E p \in Procs :
        /\ \/ PCall(p)
           \/ PFetch(p)
           \/ PFit(p)
           \/ PPredict(p)
           \/ PNews(p)
           \/ PFuse(p)
           \/ PReturn(p)
        /\ UNCHANGED <<pipeVars, probeVars, cacheVars>>
        /\ UNCHANGED appVars

SpecConcurrent ==
    InitConcurrent /\ [][NextConcurrent]_vars

----------------------------------------------------------------------------
(* send_sms_otp of sms_utils.py: the provider is chosen from the           *)
(* environment, which load_config fills when the process starts.           *)

\* the predictor, its cache and its concurrent invocations at rest
PredictorIdle ==
    /\ PipeIdle
    /\ ProbeIdle
    /\ CacheIdle
    /\ ProcsIdle

SmsKeys ==
    {"FAST2SMS_API_KEY", "TWILIO_ACCOUNT_SID", "TWILIO_AUTH_TOKEN",
     "TWILIO_PHONE_NUMBER"}

\* a ten-digit number, a number with its country code, and ten characters
\* that start with "+"
MobileTen ==
    <<"9", "8", "7", "6", "5", "4", "3", "2", "1", "0">>

MobilePlus ==
    <<"+", "9", "1">> \o MobileTen

MobilePlusTen ==
    <<"+", "1", "2", "3", "4", "5", "6", "7", "8", "9">>

Mobiles ==
    {MobileTen, MobilePlus, MobilePlusTen}

\* random.randint(1000, 9999)
Otps ==
    {1000, 9999}

\* what a provider does with the request: accepts it, refuses it, or the
\* request raises (no connection, no JSON in the body)
SmsResponses ==
    {"ok", "refused", "raises"}

SimulationMessage ==
    "No SMS API keys found. Using Simulation Mode."

\* variant of ChooseProvider: Twilio is looked at first
ChooseProviderTwilioFirst(env) ==
    IF /\ env.TWILIO_ACCOUNT_SID # ""
       /\ env.TWILIO_AUTH_TOKEN # ""
       /\ env.TWILIO_PHONE_NUMBER # ""
    THEN "Twilio"
    ELSE IF env.FAST2SMS_API_KEY # "" THEN "Fast2SMS"
    ELSE "Simulation"

\* the two if statements of send_sms_otp
ChooseProvider(env) ==
    IF env.FAST2SMS_API_KEY # "" THEN "Fast2SMS"
    ELSE IF /\ env.TWILIO_ACCOUNT_SID # ""
            /\ env.TWILIO_AUTH_TOKEN # ""
            /\ env.TWILIO_PHONE_NUMBER # ""
    THEN "Twilio"
    ELSE "Simulation"

SmsRequest(provider, to, otp, response) ==
    [provider |-> provider, to |-> to, otp |-> otp, response |-> response]

SmsReturn(sent, msg) ==
    [called |-> TRUE, sent |-> sent, msg |-> msg]

\* [requests, result] of send_via_fast2sms
send_via_fast2sms(mobile, otp, response) ==
    [requests |-> <<SmsRequest("Fast2SMS", mobile, otp, response)>>,
     result |-> IF response = "ok"
                THEN SmsReturn(TRUE, "OTP sent via Fast2SMS")
                ELSE IF response = "refused"
                THEN SmsReturn(FALSE, "Fast2SMS Error")
                ELSE SmsReturn(FALSE, "Fast2SMS Exception")]

\* [requests, result] of send_via_twilio: ten characters without a leading
\* "+" get the prefix +91
send_via_twilio(to_number, otp, response) ==
    LET to == IF Len(to_number) = 10 /\ to_number[1] # "+"
              THEN <<"+", "9", "1">> \o to_number
              ELSE to_number
    IN  [requests |-> <<SmsRequest("Twilio", to, otp, response)>>,
         result |-> IF response = "ok"
                    THEN SmsReturn(TRUE, "OTP sent via Twilio")
                    ELSE IF response = "refused"
                    THEN SmsReturn(FALSE, "Twilio Error")
                    ELSE SmsReturn(FALSE, "Twilio Exception")]

\* [requests, result] of send_sms_otp(mobile_number, otp)
send_sms_otp(env, mobile_number, otp, response) ==
    LET provider == ChooseProvider(env)
    IN  IF provider = "Fast2SMS"
        THEN send_via_fast2sms(mobile_number, otp, response)
        ELSE IF provider = "Twilio"
        THEN send_via_twilio(mobile_number, otp, response)
        ELSE [requests |-> <<>>,
              result |-> SmsReturn(FALSE, SimulationMessage)]

\* a caller invokes send_sms_otp
SendSmsOtp(mobile_number, otp, response) ==
    LET r == send_sms_otp(sms_env, mobile_number, otp, response)
    IN  /\ sms_requests' = r.requests
        /\ sms_result' = r.result
        /\ UNCHANGED sms_env
        /\ UNCHANGED <<pipeVars, probeVars, cacheVars, procVars>>
        /\ UNCHANGED <<plVars, dbVars, authVars, regVars>>

\* the process is started again with another value of one variable in .env
Configure(key, value) ==
    /\ sms_env[key] # value
    /\ sms_env' = [sms_env EXCEPT ![key] = value]
    /\ sms_requests' = <<>>
    /\ sms_result' = NoSmsResult
    /\ UNCHANGED <<pipeVars, probeVars, cacheVars, procVars>>
    /\ UNCHANGED <<plVars, dbVars, authVars, regVars>>

InitSms ==
    /\ PredictorIdle
    /\ AppIdle

NextSms ==
    \/ \E m \in Mobiles : \E o \in Otps : \E r \in SmsResponses :
          SendSmsOtp(m, o, r)
    \/ \E k \in SmsKeys : \E v \in {"", "set"} : Configure(k, v)

SpecSms ==
    InitSms /\ [][NextSms]_vars

----------------------------------------------------------------------------
(* get_timeframe_pl of streamlit_app.py as a pure function of the          *)
(* timeframe, the time of the call and what the price provider holds.      *)
(* Time is counted in hours; the age of a bar is the number of days        *)
(* between its day and the day of the call.                                *)

\* the provider holds daily bars as far back as ListedAges days
ListedAges ==
    {-1, 0, 1, 12, 400, 2000}

\* a trading halt around the target day: the days before and after it
\* that have no bar
HaltMargins ==
    {<<-1, -1>>, <<3, 9>>, <<7, 7>>, <<8, 8>>}

CallHours ==
    {1, 13}

\* days_map; 0 stands for None
Timeframes ==
    {"1D", "5D", "1M", "3M", "6M", "1Y", "5Y", "Max"}

DaysMap(timeframe) ==
    CASE timeframe = "1D" -> 1
      [] timeframe = "5D" -> 5
      [] timeframe = "1M" -> 30
      [] timeframe = "3M" -> 90
      [] timeframe = "6M" -> 180
      [] timeframe = "1Y" -> 365
      [] timeframe = "5Y" -> 365 * 5
      [] OTHER -> 0

\* hist['Close'] of the bar of age a
PlClose(a) ==
    100 + (a % 7) * 10 + (a \div 100)

\* the bars the provider holds
ProviderBars(call) ==
    {a \in 0..call.listed : ~(a >= call.halt[1] /\ a <= call.halt[2])}

\* fetch_period: "{days * 2}d", or "2y" for the long timeframes
FetchDays(days) ==
    IF days <= 180 THEN days * 2 ELSE 2 * 365

\* stock.history(period=fetch_period)
HistoryWindow(bars, period) ==
    {a \in bars : a <= period}

Abs(x) ==
    IF x < 0 THEN -x ELSE x

\* abs(date_naive - target_date) in hours
DateDiff(a, days, hour) ==
    Abs(24 * (days - a) - hour)

\* closest_date = None, min_diff = timedelta(days=999); closest -1 is None
NoClosest ==
    [closest |-> -1, min_diff |-> 999 * 24]

RECURSIVE ClosestLoop(_, _, _, _, _)
\* for date in hist.index over the ages hi down to lo, oldest bar first: a
\* bar replaces the closest so far when its diff is strictly smaller.  The
\* loop is folded by halves, the older half first.
ClosestLoop(hist, lo, hi, days, hour) ==
    IF lo > hi THEN NoClosest
    ELSE IF lo = hi
    THEN IF lo \in hist /\ DateDiff(lo, days, hour) < NoClosest.min_diff
         THEN [closest |-> lo, min_diff |-> DateDiff(lo, days, hour)]
         ELSE NoClosest
    ELSE LET mid == (lo + hi) \div 2
             older == ClosestLoop(hist, mid + 1, hi, days, hour)
             newer == ClosestLoop(hist, lo, mid, days, hour)
         IN  IF newer.min_diff < older.min_diff THEN newer ELSE older

PlNone ==
    [returned |-> TRUE, none |-> TRUE, start_price |-> 0,
     current_price |-> 0, change |-> 0, change_pct |-> 0, start_age |-> 0]

\* the returned dictionary; change_pct in hundredths of a percent
PlDict(start_age, current_age) ==
    LET start_price == PlClose(start_age)
        current_price == PlClose(current_age)
    IN  [returned |-> TRUE, none |-> FALSE, start_price |-> start_price,
         current_price |-> current_price,
         change |-> current_price - start_price,
         change_pct |-> ((current_price - start_price) * 100 * 100)
                            \div start_price,
         start_age |-> start_age]

Oldest(hist) ==
    CHOOSE a \in hist : \A b \in hist : b <= a

Newest(hist) ==
    CHOOSE a \in hist : \A b \in hist : b >= a

get_timeframe_pl(call) ==
    LET days == DaysMap(call.timeframe)
        bars == ProviderBars(call)
    IN  IF call.fails THEN PlNone
        ELSE IF days = 0
        THEN \* period='max'; with fewer than 2 bars start_price is unbound
             \* and the except clause returns None
             IF Cardinality(bars) >= 2
             THEN PlDict(Oldest(bars), Newest(bars))
             ELSE PlNone
        ELSE LET hist == HistoryWindow(bars, FetchDays(days))
             IN  IF Cardinality(hist) < 2 THEN PlNone
                 ELSE LET r == ClosestLoop(hist, 0, FetchDays(days), days,
                                           call.hour)
                      IN  IF r.closest = -1 THEN PlNone
                          ELSE IF r.min_diff \div 24 > 7 THEN PlNone
                          ELSE PlDict(r.closest, Newest(hist))

\* the calls explored: every timeframe on every provider state
PlCalls ==
    { [timeframe |-> tf, fails |-> f, listed |-> l,
       halt |-> IF m[1] < 0 THEN <<1, 0>>
                ELSE <<DaysMap(tf) - m[1], DaysMap(tf) + m[2]>>,
       hour |-> h] :
        tf \in Timeframes, f \in BOOLEAN, l \in ListedAges,
        m \in HaltMargins, h \in CallHours }

GetTimeframePl ==
    /\ ~pl_result.returned
    /\ pl_result' = get_timeframe_pl(pl_call)
    /\ UNCHANGED pl_call
    /\ UNCHANGED <<pipeVars, probeVars, cacheVars, procVars>>
    /\ UNCHANGED <<smsVars, dbVars, authVars, regVars>>

InitPl ==
    /\ PredictorIdle
    /\ SmsIdle
    /\ DbIdle
    /\ AuthIdle
    /\ RegIdle
    /\ pl_call \in PlCalls
    /\ pl_result = NoPlResult

NextPl ==
    GetTimeframePl

SpecPl ==
    InitPl /\ [][NextPl]_vars

----------------------------------------------------------------------------
(* The portfolio tables: update_portfolio_holding and add_transaction of   *)
(* database.py and the trade form of render_portfolio.  A table is the     *)
(* sequence of its rows; money is counted in hundredths.                   *)

\* the history holds at most MaxTransactions rows
MaxTransactions == 2

\* a holding grows to at most MaxQuantity units
MaxQuantity == 3

PortfolioIds ==
    {1, 2}

Symbols ==
    {"TCS", "INFY"}

Prices ==
    {0, 1000, 3000}

\* number_input("Price", min_value=0.0)
TradePrices ==
    {1000, 3000}

\* number_input("Quantity", min_value=1)
TradeQuantities ==
    {1, 2}

Holding(portfolio_id, symbol, quantity, avg_price) ==
    [portfolio_id |-> portfolio_id, symbol |-> symbol,
     quantity |-> quantity, avg_price |-> avg_price]

Transaction(portfolio_id, symbol, type, quantity, price) ==
    [portfolio_id |-> portfolio_id, symbol |-> symbol, type |-> type,
     quantity |-> quantity, price |-> price]

\* WHERE portfolio_id = :portfolio_id AND symbol = :symbol
Matches(row, portfolio_id, symbol) ==
    row.portfolio_id = portfolio_id /\ row.symbol = symbol

\* the rows of one (portfolio, symbol) pair
RowsOfPair(table, portfolio_id, symbol) ==
    {i \in 1..Len(table) : Matches(table[i], portfolio_id, symbol)}

\* variant of DeletesRow: a quantity of 0 is stored
DeletesRowNegative(quantity) ==
    quantity < 0

\* if quantity <= 0: DELETE
DeletesRow(quantity) ==
    quantity <= 0

\* the table after update_portfolio_holding, run in one transaction
update_portfolio_holding(table, portfolio_id, symbol, quantity, avg_price) ==
    LET Other(row) == ~Matches(row, portfolio_id, symbol)
        existing == \E i \in 1..Len(table) :
                        Matches(table[i], portfolio_id, symbol)
    IN  IF DeletesRow(quantity) THEN SelectSeq(table, Other)
        ELSE IF existing
        THEN [i \in 1..Len(table) |->
                IF Matches(table[i], portfolio_id, symbol)
                THEN [table[i] EXCEPT !.quantity = quantity,
                                      !.avg_price = avg_price]
                ELSE table[i]]
        ELSE Append(table, Holding(portfolio_id, symbol, quantity, avg_price))

\* a caller invokes update_portfolio_holding (the delete button passes 0, 0)
UpdatePortfolioHolding(portfolio_id, symbol, quantity, avg_price) ==
    /\ holdings' = update_portfolio_holding(holdings, portfolio_id, symbol,
                                            quantity, avg_price)
    /\ UNCHANGED <<transactions, trade_message>>
    /\ UNCHANGED <<pipeVars, probeVars, cacheVars, procVars>>
    /\ UNCHANGED <<smsVars, plVars, authVars, regVars>>

\* next((x for x in portfolio_items if x['symbol'] == trade_symbol), None):
\* [found, quantity, avg_price] of the first row of the portfolio
CurrentHolding(table, portfolio_id, symbol) ==
    LET idx == {i \in 1..Len(table) : Matches(table[i], portfolio_id, symbol)}
    IN  IF idx = {} THEN [found |-> FALSE, quantity |-> 0, avg_price |-> 0]
        ELSE LET i == CHOOSE j \in idx : \A k \in idx : j <= k
             IN  [found |-> TRUE, quantity |-> table[i].quantity,
                  avg_price |-> table[i].avg_price]

\* the trade form is submitted with a stock selected
SubmitTrade(current_id, trade_symbol, action, qty, price) ==
    LET current == CurrentHolding(holdings, current_id, trade_symbol)
        current_qty == current.quantity
        current_avg == current.avg_price
    IN  /\ Len(transactions) < MaxTransactions
        /\ action = "BUY" => current_qty + qty <= MaxQuantity
        /\ transactions' = Append(transactions,
              Transaction(current_id, trade_symbol, action, qty, price))
        /\ IF action = "BUY"
           THEN LET new_qty == current_qty + qty
                    new_avg == IF new_qty > 0
                               THEN ((current_qty * current_avg)
                                        + (qty * price)) \div new_qty
                               ELSE 0
                IN  /\ holdings' = update_portfolio_holding(holdings,
                            current_id, trade_symbol, new_qty, new_avg)
                    /\ trade_message' = "Bought"
           ELSE IF current_qty >= qty
           THEN /\ holdings' = update_portfolio_holding(holdings,
                       current_id, trade_symbol, current_qty - qty,
                       current_avg)
                /\ trade_message' = "Sold"
           ELSE /\ trade_message' = "Insufficient Quantity!"
                /\ UNCHANGED holdings
        /\ UNCHANGED <<pipeVars, probeVars, cacheVars, procVars>>
        /\ UNCHANGED <<smsVars, plVars, authVars, regVars>>

\* the delete button of a holding row
DeleteHolding(current_id, symbol) ==
    /\ RowsOfPair(holdings, current_id, symbol) # {}
    /\ UpdatePortfolioHolding(current_id, symbol, 0, 0)

InitPortfolio ==
    /\ PredictorIdle
    /\ AppIdle

\* any sequence of update_portfolio_holding calls
NextHoldings ==
    \E id \in PortfolioIds : \E sym \in Symbols :
    \E q \in (-1)..2 : \E price \in Prices :
        UpdatePortfolioHolding(id, sym, q, price)

SpecHoldings ==
    InitPortfolio /\ [][NextHoldings]_vars

\* the portfolio page: trades and deletions
NextTrades ==
    \/ \E id \in PortfolioIds : \E sym \in Symbols :
       \E action \in {"BUY", "SELL"} : \E q \in TradeQuantities :
       \E price \in TradePrices :
          SubmitTrade(id, sym, action, q, price)
    \/ \E id \in PortfolioIds : \E sym \in Symbols : DeleteHolding(id, sym)

SpecTrades ==
    InitPortfolio /\ [][NextTrades]_vars

----------------------------------------------------------------------------
(* The users table and the two functions that add accounts, called by      *)
(* concurrent sessions.  Each statement is one step; the INSERT is checked *)
(* by the database against the unique columns of the table.                *)

Ann ==
    <<"a", "n", "n">>

Bob ==
    <<"b", "o", "b">>

Usernames ==
    {Ann, Bob}

Passwords ==
    {"secret1", "secret2"}

\* bcrypt.hashpw: checkpw(p, h) holds exactly when h was made from p
HashOf(password) ==
    IF password = "secret1" THEN "$2b$secret1"
    ELSE IF password = "secret2" THEN "$2b$secret2"
    ELSE "$2b$other"

\* a row of users; NullText and "NULL" are the SQL null of username and of
\* password_hash
User(id, username, password_hash, mobile_number) ==
    [id |-> id, username |-> username, password_hash |-> password_hash,
     mobile_number |-> mobile_number]

RegMobiles ==
    {MobileTen, MobilePlus}

\* variant of UniqueViolation: the table has no unique columns
UniqueViolationNever(table, username, mobile) ==
    FALSE

\* unique=True on username and on mobile_number; nulls do not collide
UniqueViolation(table, username, mobile) ==
    \E i \in 1..Len(table) :
        \/ username # NullText /\ table[i].username = username
        \/ table[i].mobile_number = mobile

\* the INSERT of either function: [table, returned]
InsertUser(table, username, password_hash, mobile) ==
    IF UniqueViolation(table, username, mobile)
    THEN [table |-> table, returned |-> <<FALSE, "Error: IntegrityError">>]
    ELSE [table |-> Append(table, User(Len(table) + 1, username,
                                       password_hash, mobile)),
          returned |-> <<TRUE, "User created successfully!">>]

\* a session calls register_user(username, password, mobile)
RegisterCall(p, username, mobile) ==
    /\ reg[p].pc = "idle"
    /\ reg' = [reg EXCEPT ![p] = [NoReg EXCEPT !.pc = "select",
                                               !.kind = "register",
                                               !.username = username,
                                               !.mobile = mobile]]
    /\ UNCHANGED users

\* a session calls create_user_by_mobile(mobile)
MobileCall(p, mobile) ==
    /\ reg[p].pc = "idle"
    /\ reg' = [reg EXCEPT ![p] = [NoReg EXCEPT !.pc = "insert",
                                               !.kind = "mobile",
                                               !.username = NullText,
                                               !.mobile = mobile]]
    /\ UNCHANGED users

\* SELECT ... WHERE username = :u OR mobile_number = :m, fetchone, and the
\* two comparisons on the fetched row
RegisterSelect(p) ==
    LET l == reg[p]
        found == {i \in 1..Len(users) :
                    \/ users[i].username = l.username
                    \/ users[i].mobile_number = l.mobile}
    IN  /\ l.pc = "select"
        /\ IF found = {}
           THEN reg' = [reg EXCEPT ![p].pc = "insert"]
           ELSE \E i \in found :
                  reg' = [reg EXCEPT
                     ![p].existing = users[i].id,
                     ![p].pc = "done",
                     ![p].returned =
                        IF users[i].username = l.username
                        THEN <<FALSE, "Username already taken. Please choose another.">>
                        ELSE <<FALSE, "Mobile number already registered. Please login.">>]
        /\ UNCHANGED users

\* the INSERT in its own transaction; an IntegrityError is caught
RegInsert(p) ==
    LET l == reg[p]
        r == InsertUser(users, l.username,
                        IF l.kind = "register" THEN HashOf("secret1")
                        ELSE "NULL",
                        l.mobile)
    IN  /\ l.pc = "insert"
        /\ users' = r.table
        /\ reg' = [reg EXCEPT ![p].pc = "done", ![p].returned = r.returned]

RegReturn(p) ==
    /\ reg[p].pc = "done"
    /\ reg' = [reg EXCEPT ![p].pc = "idle"]
    /\ UNCHANGED users

InitRegister ==
    /\ PredictorIdle
    /\ AppIdle

NextRegister ==
    \E p \in RegProcs :
        /\ \/ \E u \in Usernames : \E m \in RegMobiles : RegisterCall(p, u, m)
           \/ \E m \in RegMobiles : MobileCall(p, m)
           \/ RegisterSelect(p)
           \/ RegInsert(p)
           \/ RegReturn(p)
        /\ UNCHANGED <<session, submitted, page>>
        /\ UNCHANGED <<pipeVars, probeVars, cacheVars, procVars>>
        /\ UNCHANGED <<smsVars, plVars, dbVars>>

SpecRegister ==
    InitRegister /\ [][NextRegister]_vars

----------------------------------------------------------------------------
(* main and render_login of streamlit_app.py: one browser session. Each    *)
(* action is one run of the script, started by the widget the user         *)
(* submitted on the page the run before it rendered.                       *)

\* the text inputs of the login page
Identifiers ==
    Usernames \cup {MobileTen}

ShortMobile ==
    <<"9", "8", "7">>

MobileInputs ==
    {MobileTen, MobilePlusTen, ShortMobile}

DigitChars ==
    <<"0", "1", "2", "3", "4", "5", "6", "7", "8", "9">>

\* str(otp) of a non-negative integer
RECURSIVE Str(_)
Str(n) ==
    IF n < 10 THEN <<DigitChars[n + 1]>>
    ELSE Str(n \div 10) \o <<DigitChars[(n % 10) + 1]>>

\* what the user types into "Enter OTP": a code, a code followed by a
\* blank, nothing
OtpInputs ==
    {Str(o) : o \in Otps} \cup {Str(1000) \o <<" ">>, NoText}

\* mobile.isdigit()
IsDigit(text) ==
    /\ Len(text) > 0
    /\ \A i \in 1..Len(text) : \E d \in 1..10 : text[i] = DigitChars[d]

\* None as login_user and get_user_by_mobile return it
NoUser ==
    User(0, NullText, "NULL", NoText)

\* the rows of SELECT * FROM users WHERE username = :identifier OR
\* mobile_number = :identifier
LoginRows(table, identifier) ==
    {i \in 1..Len(table) :
        \/ table[i].username = identifier
        \/ table[i].mobile_number = identifier}

\* variant of login_user: the password is not compared with the hash
login_user_unchecked(table, i, password) ==
    IF table[i].password_hash # "NULL" THEN table[i] ELSE NoUser

\* login_user once fetchone gave row i: the row when it holds a hash and
\* bcrypt.checkpw accepts the password
login_user(table, i, password) ==
    IF /\ table[i].password_hash # "NULL"
       /\ table[i].password_hash = HashOf(password)
    THEN table[i]
    ELSE NoUser

\* get_user_by_mobile: mobile_number is unique, at most one row
get_user_by_mobile(table, mobile) ==
    LET found == {i \in 1..Len(table) : table[i].mobile_number = mobile}
    IN  IF found = {} THEN NoUser ELSE table[CHOOSE i \in found : TRUE]

\* register_user by one caller: [table, returned]
register_user(table, username, password, mobile) ==
    LET found == {i \in 1..Len(table) :
                    \/ table[i].username = username
                    \/ table[i].mobile_number = mobile}
    IN  IF found # {}
        THEN [table |-> table,
              returned |-> <<FALSE, "already taken or registered">>]
        ELSE InsertUser(table, username, HashOf(password), mobile)

\* "Initialize OTP State" of the Mobile OTP tab
InitOtpState(state) ==
    [state EXCEPT
        !.auth_step = IF @ = "absent" THEN "input_mobile" ELSE @,
        !.auth_mobile = IF @ = AbsentText THEN NoText ELSE @,
        !.auth_otp = IF @ = AbsentText THEN NoneText ELSE @]

\* what main renders for a session state
PageOf(state) ==
    IF state.user_id = 0 THEN "login" ELSE "Dashboard"

\* the browser opens the application
Open ==
    /\ page = "none"
    /\ session' = InitOtpState(session)
    /\ page' = PageOf(session')
    /\ submitted' = NoForm
    /\ UNCHANGED <<users, smsVars>>

\* "Login" of login_form; a successful login reruns before the OTP state
\* is initialised, and the rerun renders the application
SubmitPassword(identifier, password) ==
    /\ page = "login"
    /\ submitted' = [NoForm EXCEPT !.form = "login_form",
                                   !.identifier = identifier,
                                   !.password = password]
    /\ IF LoginRows(users, identifier) = {}
       THEN session' = InitOtpState(session)
       ELSE \E i \in LoginRows(users, identifier) :
              LET user == login_user(users, i, password)
              IN  session' = IF user # NoUser
                             THEN [session EXCEPT
                                      !.user_id = user.id,
                                      !.username = user.username]
                             ELSE InitOtpState(session)
    /\ page' = PageOf(session')
    /\ UNCHANGED <<users, smsVars>>

\* "Send OTP" of mobile_form
SubmitMobile(mobile, otp, response) ==
    /\ page = "login"
    /\ session.auth_step = "input_mobile"
    /\ submitted' = [NoForm EXCEPT !.form = "mobile_form",
                                   !.mobile = mobile,
                                   !.otp = Str(otp)]
    /\ IF Len(mobile) < 10
       THEN /\ session' = session
            /\ UNCHANGED smsVars
       ELSE LET r == send_sms_otp(sms_env, mobile, otp, response)
            IN  /\ session' = [session EXCEPT
                      !.auth_otp = Str(otp),
                      !.auth_mobile = mobile,
                      !.auth_step = "verify_otp",
                      !.auth_msg =
                         IF r.result.sent THEN <<"OTP sent via SMS">>
                         ELSE <<"SIMULATION: Your OTP is ">> \o Str(otp)]
                /\ sms_requests' = r.requests
                /\ sms_result' = r.result
                /\ UNCHANGED sms_env
    /\ page' = PageOf(session')
    /\ UNCHANGED users

\* "Verify & Login" of otp_form; created tells whether the INSERT of
\* create_user_by_mobile went through
SubmitOtp(otp_input, created) ==
    /\ page = "login"
    /\ session.auth_step = "verify_otp"
    /\ submitted' = [NoForm EXCEPT !.form = "otp_form",
                                   !.otp_input = otp_input]
    /\ IF otp_input = session.auth_otp
       THEN LET mobile == session.auth_mobile
                found == get_user_by_mobile(users, mobile)
                r == IF found # NoUser \/ ~created
                     THEN [table |-> users]
                     ELSE InsertUser(users, NullText, "NULL", mobile)
                user == get_user_by_mobile(r.table, mobile)
            IN  /\ users' = r.table
                /\ session' = IF user = NoUser THEN session
                              ELSE [NoSession EXCEPT
                                      !.user_id = user.id,
                                      !.username = user.mobile_number]
       ELSE /\ session' = session
            /\ UNCHANGED users
    /\ page' = PageOf(session')
    /\ UNCHANGED smsVars

\* "Change Number"
ChangeNumber ==
    /\ page = "login"
    /\ session.auth_step = "verify_otp"
    /\ submitted' = NoForm
    /\ session' = [session EXCEPT !.auth_step = "input_mobile"]
    /\ page' = PageOf(session')
    /\ UNCHANGED <<users, smsVars>>

\* "Create Account" of register_form with both passwords alike
SubmitRegister(new_user, new_pass, mobile) ==
    /\ page = "login"
    /\ submitted' = [NoForm EXCEPT !.form = "register_form",
                                   !.identifier = new_user,
                                   !.password = new_pass,
                                   !.mobile = mobile]
    /\ users' = IF Len(mobile) # 10 \/ ~IsDigit(mobile) THEN users
                ELSE register_user(users, new_user, new_pass, mobile).table
    /\ session' = InitOtpState(session)
    /\ page' = PageOf(session')
    /\ UNCHANGED smsVars

\* "Logout" of the navigation bar: the session state is cleared and the
\* rerun renders the login page
Logout ==
    /\ page = "Dashboard"
    /\ submitted' = NoForm
    /\ session' = InitOtpState(NoSession)
    /\ page' = PageOf(session')
    /\ UNCHANGED <<users, smsVars>>

\* the accounts the database holds when the session starts, and the
\* provider keys of the process
StoredUsers ==
    <<User(1, Ann, HashOf("secret1"), MobileTen),
      User(2, NullText, "NULL", MobilePlus)>>

InitAuth ==
    /\ PredictorIdle
    /\ PlIdle
    /\ DbIdle
    /\ RegIdle
    /\ sms_env \in {NoSmsEnv, [NoSmsEnv EXCEPT !.FAST2SMS_API_KEY = "set"]}
    /\ sms_requests = <<>>
    /\ sms_result = NoSmsResult
    /\ users \in {<<>>, StoredUsers}
    /\ session = NoSession
    /\ submitted = NoForm
    /\ page = "none"

NextAuth ==
    /\ \/ Open
       \/ \E i \in Identifiers : \E p \in Passwords : SubmitPassword(i, p)
       \/ \E m \in MobileInputs : \E o \in Otps : \E r \in {"ok", "refused"} :
             SubmitMobile(m, o, r)
       \/ \E o \in OtpInputs : \E c \in BOOLEAN : SubmitOtp(o, c)
       \/ ChangeNumber
       \/ \E u \in Usernames : \E m \in MobileInputs :
             SubmitRegister(u, "secret2", m)
       \/ Logout
    /\ UNCHANGED <<pipeVars, probeVars, cacheVars, procVars>>
    /\ UNCHANGED <<plVars, dbVars, regVars>>

SpecAuth ==
    InitAuth /\ [][NextAuth]_vars

----------------
(* Properties *)

MinOf(a, b) ==
    IF a < b THEN a ELSE b

MaxOf(a, b) ==
    IF a > b THEN a ELSE b

\* the invocation has returned (the caller may have taken the result)
Returned ==
    pc \in {"done", "idle"} /\ result # NoResult

\* the price provider answered with a history
Fetched ==
    df # NoHistory

\* the environment failed: the price provider or the machine's resources
EnvironmentFailed ==
    raised.is /\ raised.at \in {"history", "resource"}

\* C1: a history of fewer than 200 bars (an empty one included) gives
\* signal NEUTRAL, confidence 0, empty metrics and empty news, and neither
\* the model is trained nor the news provider called.
C1_ShortHistoryNeutral ==
    (Fetched /\ df.n < 200) =>
        /\ fitCalls = 0
        /\ newsCalls = 0
        /\ pc \in {"check", "done", "idle"}
        /\ Returned =>
            /\ result.signal = "NEUTRAL"
            /\ result.confidence = 0
            /\ result.metrics = {}
            /\ result.news = <<>>

C1_Witness ==
    /\ pc = "done"
    /\ Fetched
    /\ df.n = 199
    /\ result.signal = "NEUTRAL"

\* C2: for every model probability p in [0,1] and every sentiment score s
\* the final probability is clamp(p + clamp(0.1*s, -0.2, 0.2), 0, 1), and
\* lies in [0,1].
C2_FusionFormula ==
    pc = "done" =>
        LET adj == MaxOf(-((20 * Unit) \div 100),
                         MinOf((20 * Unit) \div 100, sentiment_score \div 10))
        IN  /\ final_probability = MaxOf(0, MinOf(Unit, rf_probability + adj))
            /\ final_probability >= 0
            /\ final_probability <= Unit

\* a score above 2 whose adjustment is cut to 0.2, and a sum cut to 1
C2_Witness ==
    /\ pc = "done"
    /\ sentiment_score = 3 * Unit
    /\ rf_probability = (90 * Unit) \div 100
    /\ final_probability = Unit

\* C3: the signal follows the ordered threshold table with strict
\* comparisons: f > 0.70 STRONG BUY, else f > 0.55 BUY, else f < 0.30
\* STRONG SELL, else f < 0.45 SELL, else HOLD; so 0.70 is BUY, 0.55 and 0.45
\* are HOLD, 0.30 is SELL, and every f in [0,1] has exactly one signal.
C3_ThresholdTable ==
    pc = "done" =>
        LET f == final_probability * 100
            sig == result.signal
        IN  /\ sig \in TradingSignals
            /\ (sig = "STRONG BUY") <=> (f > 70 * Unit)
            /\ (sig = "BUY") <=> (f > 55 * Unit /\ f <= 70 * Unit)
            /\ (sig = "STRONG SELL") <=> (f < 30 * Unit)
            /\ (sig = "SELL") <=> (f >= 30 * Unit /\ f < 45 * Unit)
            /\ (sig = "HOLD") <=> (f >= 45 * Unit /\ f <= 55 * Unit)

C3_Witness ==
    /\ pc = "done"
    /\ final_probability * 100 = 70 * Unit
    /\ result.signal = "BUY"

\* C4: every exception raised inside predict_signal gives signal ERROR,
\* confidence 0, a non-empty reason equal to the error message, empty
\* metrics and empty news.
C4_ExceptionGivesError ==
    raised.is =>
        /\ result.signal = "ERROR"
        /\ result.confidence = 0
        /\ result.reason = <<raised.msg>>
        /\ raised.msg # ""
        /\ result.metrics = {}
        /\ result.news = <<>>

\* C5: the sentiment score lies in [-1, 1], and is exactly 0 when no
\* headline is collected.
C5_ScoreRange ==
    /\ sentiment_score >= -Unit
    /\ sentiment_score <= Unit
    /\ headlines = <<>> => sentiment_score = 0

\* five headlines collected, every one negative
C5_Witness ==
    /\ pc = "fuse"
    /\ Len(headlines) = 5
    /\ sentiment_score = -Unit

\* the contribution each title of the model must have, worked out by hand
\* from the two keyword lists
ExpectedContribution ==
    (TitleSurge :> 1) @@ (TitleCraters :> 0) @@ (TitleBoth :> 1)
        @@ (TitleDrop :> -1)

\* C6: a collected title counts +1 when it contains a positive keyword,
\* else -1 when it contains a negative keyword, else 0 (a title with both
\* counts +1); the score is the sum of the counts divided by the number of
\* headlines collected.
C6_ScoreIsMeanContribution ==
    headlines # <<>> =>
        LET idx == 1..Len(headlines)
            plus == Cardinality({i \in idx :
                        ExpectedContribution[headlines[i].title] = 1})
            minus == Cardinality({i \in idx :
                        ExpectedContribution[headlines[i].title] = -1})
        IN  sentiment_score * Len(headlines) = (plus - minus) * Unit

\* the only headline holds FALL and Strong, and counts +1
C6_Witness ==
    /\ pc = "fuse"
    /\ Len(headlines) = 1
    /\ headlines[1].title = TitleBoth
    /\ sentiment_score = Unit

\* C7 as stated: "Company shares surge on record profit" counts +1 and
\* "Stock craters amid fraud" counts -1.
C7_Original ==
    (Len(headlines) = 1 /\ pc = "fuse") =>
        /\ headlines[1].title = TitleSurge => sentiment_score = Unit
        /\ headlines[1].title = TitleCraters => sentiment_score = -Unit

\* C7 amended: "Company shares surge on record profit" counts +1 and
\* "Stock craters amid fraud", which holds no keyword of either list,
\* counts 0.
C7_SurgePlusCratersZero ==
    (Len(headlines) = 1 /\ pc = "fuse") =>
        /\ headlines[1].title = TitleSurge => sentiment_score = Unit
        /\ headlines[1].title = TitleCraters => sentiment_score = 0

C7_Witness ==
    /\ pc = "fuse"
    /\ Len(headlines) = 1
    /\ headlines[1].title = TitleCraters
    /\ sentiment_score = 0

\* C8: a strictly rising series of 300 bars (close one unit up per day)
\* with no negative sentiment ends in BUY or STRONG BUY, the environment
\* not failing.
C8_RisingSeriesBuys ==
    (/\ Returned
     /\ df = [shape |-> "rising", n |-> 300]
     /\ ~EnvironmentFailed
     /\ sentiment_score >= 0)
        => result.signal \in {"BUY", "STRONG BUY"}

\* C9: with fewer than 195 usable rows left after the rows with undefined
\* indicators are dropped, the result is NEUTRAL and the classifier is not
\* invoked, the environment not failing.
C9_FewRowsNeutral ==
    (/\ Returned
     /\ Fetched
     /\ ~EnvironmentFailed
     /\ Cardinality(Rows(df)) < 195)
        => /\ result.signal = "NEUTRAL"
           /\ fitCalls = 0

\* C10: a failure of the news provider, or while the news is processed,
\* never gives ERROR: the score is 0 with no headlines, and the result is
\* one of the five trading signals, chosen by the model probability alone.
C10_NewsFailureDegrades ==
    newsFailed =>
        /\ sentiment_score = 0
        /\ headlines = <<>>
        /\ ~raised.is
        /\ pc \in {"fuse", "done", "idle"}
        /\ Returned =>
            /\ result.signal \in TradingSignals
            /\ final_probability = rf_probability
            /\ result.confidence = rf_probability * 100
            /\ result.news = <<>>

C10_Witness ==
    /\ pc = "done"
    /\ newsFailed
    /\ rf_probability = (80 * Unit) \div 100
    /\ result.signal = "STRONG BUY"

\* the feature table and the training set exist: the fit was called and
\* the frames were not deleted by the cleanup before a successful return
FramesAlive ==
    fitCalls = 1 /\ (raised.is \/ pc \in {"predict", "news", "fuse"})

\* C11: the classifier is fitted on every feature row but the final 5;
\* Target[i] is 1 exactly when Close[i+5] > Close[i] (equal closes give 0);
\* the scored row is the most recent one and is not a training row; no
\* training row has an undefined look-ahead.
C11_TrainingSet ==
    pc \in {"predict", "news", "fuse"} =>
        /\ X_train = {i \in X : \E j \in X : j >= i + 5}
        /\ DOMAIN y_train = X_train
        /\ \A i \in X_train :
            /\ i + 5 <= df.n - 1
            /\ y_train[i] = 1 <=> Close(df, i + 5) > Close(df, i)
            /\ y_train[i] \in {0, 1}
        /\ pc \in {"news", "fuse"} =>
            /\ latest_features = df.n - 1
            /\ latest_features \notin X_train

\* two training rows with different labels, and the scored row after them
C11_Witness ==
    /\ pc = "news"
    /\ df.n = 206
    /\ X_train = {199, 200}
    /\ y_train[199] # y_train[200]
    /\ latest_features = 205

\* C12 as stated: a gap-free input of n >= 200 bars leaves n - 200 feature
\* rows after the rows with undefined indicators are dropped.
C12_Original ==
    FramesAlive => Cardinality(X) = df.n - 200

\* C12 amended: a gap-free input of n >= 200 bars leaves n - 199 feature
\* rows: the 200-bar mean is defined from the 200th bar on, so the first
\* 199 rows are dropped.
C12_RowsLeft ==
    FramesAlive =>
        /\ df.n >= 200
        /\ Cardinality(X) = df.n - 199
        /\ X = 199..(df.n - 1)

C12_Witness ==
    /\ pc = "predict"
    /\ df.n = 300
    /\ Cardinality(X) = 101

\* C13: no row with an undefined indicator (a row with fewer than 200 bars
\* up to and including it) is used for training or scoring; such rows are
\* dropped, not filled in.
C13_NoUndefinedRowUsed ==
    FramesAlive =>
        /\ \A i \in X_train : i + 1 >= 200 /\ i <= df.n - 1
        /\ latest_features # -1 =>
              latest_features + 1 >= 200 /\ latest_features <= df.n - 1
        /\ \A i \in 0..198 : i \notin X

C13_Witness ==
    /\ pc = "news"
    /\ df.n = 300
    /\ 199 \in X_train
    /\ latest_features = 299

\* C16: every returned value has one of the seven signals and a confidence
\* in [0, 100]; for the five trading signals the confidence is 100 times
\* the final probability (STRONG BUY above 70, STRONG SELL below 30); for
\* NEUTRAL and ERROR it is 0 with empty metrics and news.
C16_ResultShape ==
    Returned =>
        /\ result.signal \in TradingSignals \cup {"NEUTRAL", "ERROR"}
        /\ result.confidence >= 0
        /\ result.confidence <= 100 * Unit
        /\ result.signal \in TradingSignals =>
            /\ result.confidence = 100 * final_probability
            /\ result.signal = "STRONG BUY" => result.confidence > 70 * Unit
            /\ result.signal = "STRONG SELL" => result.confidence < 30 * Unit
        /\ result.signal \in {"NEUTRAL", "ERROR"} =>
            /\ result.confidence = 0
            /\ result.metrics = {}
            /\ result.news = <<>>

C16_Witness ==
    /\ pc = "done"
    /\ result.signal = "STRONG SELL"
    /\ result.confidence = 25 * Unit

\* the news list the scorer ran over
UsedNews ==
    IF Len(lookups) = 2 THEN news_second.news ELSE news_first.news

\* an entry carries a title, at the top level or inside its content
Titled(item) ==
    item.title # NoText \/ (item.content = "dict" /\ item.ctitle # NoText)

TitleOf(item) ==
    IF item.title # NoText THEN item.title ELSE item.ctitle

\* the titles of the first five entries that carry one, in provider order
CollectedTitles(news) ==
    LET top == SubSeq(news, 1, MinOf(5, Len(news)))
        kept == SelectSeq(top, Titled)
    IN  [i \in 1..Len(kept) |-> TitleOf(kept[i])]

HeadlineTitles ==
    [i \in 1..Len(headlines) |-> headlines[i].title]

WellFormed(item) ==
    item.title # NoText /\ item.link # ""

\* C18: at most 5 headlines are collected; whatever entry among the first
\* five is malformed, every well-formed entry among them is collected with
\* its title and link, and the score is the sum of the contributions of the
\* collected headlines over their number.
C18_MalformedSkipped ==
    (pc = "fuse" /\ ~news_first.raises /\ ~news_second.raises) =>
        LET top == SubSeq(UsedNews, 1, MinOf(5, Len(UsedNews)))
        IN  /\ Len(headlines) <= 5
            /\ \A i \in 1..Len(top) :
                  WellFormed(top[i]) =>
                      \E j \in 1..Len(headlines) :
                          headlines[j] = [title |-> top[i].title,
                                          link |-> top[i].link]
            /\ headlines # <<>> =>
                  sentiment_score * Len(headlines) =
                      Unit * (Cardinality({i \in 1..Len(headlines) :
                                ExpectedContribution[headlines[i].title] = 1})
                            - Cardinality({i \in 1..Len(headlines) :
                                ExpectedContribution[headlines[i].title] = -1}))

\* C19: the reason of a successful result is, in this order, the RSI
\* sentence (oversold below 30, overbought above 70, neutral otherwise, 30
\* and 70 included), the MACD sentence, the SMA sentence, a Bollinger
\* sentence only when the close is strictly outside a band, and the
\* confidence line.
C19_ReasonOrder ==
    pc = "done" =>
        LET r == result.reason
            row == latest_row
            outside == row.Close < row.BB_Lower \/ row.Close > row.BB_Upper
        IN  /\ Len(r) >= 4
            /\ row.RSI < 30 => r[1] = "RSI is oversold"
            /\ row.RSI > 70 => r[1] = "RSI is overbought"
            /\ (row.RSI >= 30 /\ row.RSI <= 70) => r[1] = "RSI is neutral"
            /\ r[2] = IF row.MACD > row.MACD_Signal
                      THEN "MACD is above the signal line (Bullish)."
                      ELSE "MACD is below the signal line (Bearish)."
            /\ r[3] = IF row.Close > row.SMA_200
                      THEN "Price is above the 200-day SMA (Long-term Bullish)."
                      ELSE "Price is below the 200-day SMA (Long-term Bearish)."
            /\ outside =>
                /\ Len(r) >= 5
                /\ r[4] = IF row.Close < row.BB_Lower
                          THEN "Price broke below Lower Bollinger Band"
                          ELSE "Price broke above Upper Bollinger Band"
                /\ r[5] = "Model Confidence"
            /\ ~outside => r[4] = "Model Confidence"

\* RSI exactly 30 and the close exactly on the lower band
C19_Witness ==
    /\ pc = "done"
    /\ latest_row.RSI = 30
    /\ latest_row.Close = latest_row.BB_Lower
    /\ result.reason[1] = "RSI is neutral"
    /\ result.reason[4] = "Model Confidence"

\* C20: the reason of every successful result ends, after the confidence
\* line, with a sentiment line that is one of bullish, bearish, none found.
C20_SentimentLineLast ==
    (pc = "done" /\ result.signal \in TradingSignals) =>
        LET r == result.reason
        IN  /\ Len(r) >= 2
            /\ r[Len(r) - 1] = "Model Confidence"
            /\ r[Len(r)] \in {"News Sentiment: Bullish",
                              "News Sentiment: Bearish",
                              "News: No recent news found."}

\* C14: a call for a symbol whose entry is younger than 3600 seconds
\* returns the stored result and contacts no provider and fits nothing; a
\* call without such an entry runs the body on what the providers hold now;
\* the value a run returns is stored under its own symbol only.
C14_CacheStep ==
    /\ (pc = "idle" /\ pc' # "idle") =>
          IF cache[ticker'].present /\ now - cache[ticker'].at < 3600
          THEN /\ pc' = "done"
               /\ result' = cache[ticker'].value
               /\ historyCalls' = 0 /\ fitCalls' = 0 /\ newsCalls' = 0
          ELSE pc' = "fetch"
    /\ (pc \notin {"idle", "done"} /\ pc' = "done") =>
          /\ historyCalls' = 1
          /\ result' = RunAlone(ticker, world[ticker])
    /\ (pc = "done" /\ pc' = "idle") =>
          /\ \A t \in Tickers \ {ticker} : cache'[t] = cache[t]
          /\ historyCalls > 0 =>
                cache'[ticker] = [present |-> TRUE, value |-> result,
                                  at |-> now]
          /\ historyCalls = 0 => cache'[ticker] = cache[ticker]

C14_CachePerSymbol ==
    [][C14_CacheStep]_vars

\* the stored STRONG BUY is returned while the price provider is down, and
\* the other symbol has another entry
C14_Witness ==
    /\ pc = "done"
    /\ historyCalls = 0
    /\ now > 0
    /\ result.signal = "STRONG BUY"
    /\ world[ticker] = WorldBroken
    /\ \E t \in Tickers \ {ticker} :
          cache[t].present /\ cache[t].value.signal = "NEUTRAL"

\* C15: under every interleaving with an invocation for another symbol, an
\* invocation returns what it returns when it runs alone on the same
\* provider data.
C15_InterleavingFree ==
    \A p \in Procs :
        locals[p].pc = "done" =>
            locals[p].result = RunAlone(TickerOf(p), world[TickerOf(p)])

\* both invocations have fitted their models and hold different results
C15_Witness ==
    /\ \A p \in Procs : locals[p].pc = "done"
    /\ models[1].fitted /\ models[2].fitted
    /\ locals[1].result.signal = "STRONG BUY"
    /\ locals[2].result.signal = "SELL"

\* C21: within one invocation the price provider is queried at most once
\* and the model is fitted at most once; once a step has failed the
\* invocation is over, with the ERROR result of that failure.
C21_NoRetry ==
    /\ historyCalls <= 1
    /\ fitCalls <= 1
    /\ raised.is =>
          /\ pc \in {"done", "idle"}
          /\ result = ErrorResult(raised.msg)

\* the price provider failed on the only query and nothing was fitted
C21_Witness ==
    /\ pc = "done"
    /\ raised.is
    /\ raised.at = "history"
    /\ historyCalls = 1
    /\ fitCalls = 0
    /\ result.signal = "ERROR"

\* C24: in every successful result the sentiment score is within [-1, 1],
\* so a tenth of it is within [-0.1, 0.1], the clamp to [-0.2, 0.2] leaves
\* it as it is, and the final probability is within 0.1 of the model's.
C24_AdjustmentWithinTenth ==
    (pc = "done" /\ result.signal \in TradingSignals) =>
        /\ sentiment_score >= -Unit /\ sentiment_score <= Unit
        /\ SentimentAdjustment(sentiment_score) = sentiment_score \div 10
        /\ 10 * SentimentAdjustment(sentiment_score) >= -Unit
        /\ 10 * SentimentAdjustment(sentiment_score) <= Unit
        /\ 10 * (final_probability - rf_probability) <= Unit
        /\ 10 * (rf_probability - final_probability) <= Unit

\* the largest adjustment: every headline positive, the probability moved
\* up by exactly 0.1
C24_Witness ==
    /\ pc = "done"
    /\ result.signal \in TradingSignals
    /\ sentiment_score = Unit
    /\ 10 * (final_probability - rf_probability) = Unit

\* C25: for every history of at least 200 bars the training set is not
\* empty and the classifier yields a class-1 probability, so the result
\* carries a trading signal, the environment not failing.
C25_LongHistoryTrades ==
    (/\ pc = "done"
     /\ Fetched
     /\ df.n >= 200
     /\ ~EnvironmentFailed)
        => /\ result.signal \in TradingSignals
           /\ fitCalls = 1
           /\ ~raised.is

\* a stored ERROR or NEUTRAL entry of the symbol that is called
FailureStored(t) ==
    /\ cache[t].present
    /\ cache[t].value.signal \in {"ERROR", "NEUTRAL"}

\* C26: an ERROR or NEUTRAL result is stored under its symbol when the
\* body returns it, and a call for that symbol within the next 3600
\* seconds returns it without contacting a provider, whatever the
\* providers hold by then.
C26_FailureStep ==
    /\ (/\ pc = "done"
        /\ pc' = "idle"
        /\ historyCalls > 0
        /\ result.signal \in {"ERROR", "NEUTRAL"}) =>
            cache'[ticker] = [present |-> TRUE, value |-> result, at |-> now]
    /\ (/\ pc = "idle"
        /\ pc' # "idle"
        /\ FailureStored(ticker')
        /\ now - cache[ticker'].at < 3600) =>
            /\ pc' = "done"
            /\ result' = cache[ticker'].value
            /\ historyCalls' = 0
            /\ fitCalls' = 0
            /\ newsCalls' = 0

C26_FailuresCached ==
    [][C26_FailureStep]_vars

\* the stored ERROR is returned although the providers have recovered
C26_Witness ==
    /\ pc = "done"
    /\ historyCalls = 0
    /\ now > 0
    /\ result.signal = "ERROR"
    /\ world[ticker] = WorldUp

\* C22: a call of send_sms_otp contacts Fast2SMS when its key is set,
\* otherwise Twilio when its SID, token and number are all set, otherwise
\* no provider, returning (False, simulation message); it never contacts
\* more than one provider, and a provider that refuses or a request that
\* raises gives (False, message).
C22_ProviderPriority ==
    sms_result.called =>
        LET fast == sms_env.FAST2SMS_API_KEY # ""
            twilio == /\ sms_env.TWILIO_ACCOUNT_SID # ""
                      /\ sms_env.TWILIO_AUTH_TOKEN # ""
                      /\ sms_env.TWILIO_PHONE_NUMBER # ""
        IN  /\ Len(sms_requests) <= 1
            /\ fast =>
                  /\ Len(sms_requests) = 1
                  /\ sms_requests[1].provider = "Fast2SMS"
            /\ (~fast /\ twilio) =>
                  /\ Len(sms_requests) = 1
                  /\ sms_requests[1].provider = "Twilio"
            /\ (~fast /\ ~twilio) =>
                  /\ sms_requests = <<>>
                  /\ sms_result = [called |-> TRUE, sent |-> FALSE,
                                   msg |-> SimulationMessage]
            /\ \A i \in 1..Len(sms_requests) :
                  /\ sms_result.sent <=> sms_requests[i].response = "ok"
                  /\ sms_requests[i].response # "ok" =>
                        sms_result.msg \in {"Fast2SMS Error",
                                            "Fast2SMS Exception",
                                            "Twilio Error",
                                            "Twilio Exception"}

\* both providers are configured, Fast2SMS alone is asked and its request
\* raises
C22_Witness ==
    /\ sms_result.called
    /\ \A k \in SmsKeys : sms_env[k] # ""
    /\ Len(sms_requests) = 1
    /\ sms_requests[1].provider = "Fast2SMS"
    /\ sms_requests[1].response = "raises"
    /\ ~sms_result.sent

\* the trading days within 7 whole days of the target, of all the
\* provider holds
NearTarget(call) ==
    LET days == DaysMap(call.timeframe)
    IN  {a \in ProviderBars(call) :
            /\ a >= days - 8
            /\ a <= days + 8
            /\ Abs(24 * (days - a) - call.hour) \div 24 <= 7}

\* C23: for a timeframe of N days get_timeframe_pl returns None when the
\* fetched history has fewer than 2 bars or no trading day lies within 7
\* whole days of now - N days; otherwise it returns a result whose start
\* price is the close of the trading day nearest to that target and whose
\* change_pct is (current - start) / start * 100; for Max it returns None
\* with fewer than 2 bars and a result otherwise.
C23_TimeframeResult ==
    (pl_result.returned /\ ~pl_call.fails) =>
        LET days == DaysMap(pl_call.timeframe)
            bars == ProviderBars(pl_call)
            near == NearTarget(pl_call)
        IN  IF days = 0
            THEN pl_result.none <=> Cardinality(bars) < 2
            ELSE IF \/ Cardinality({a \in bars : a <= 2 * days}) < 2
                    \/ near = {}
            THEN pl_result.none
            ELSE /\ ~pl_result.none
                 /\ \A a \in near :
                       Abs(24 * (days - pl_result.start_age) - pl_call.hour)
                          <= Abs(24 * (days - a) - pl_call.hour)
                 /\ pl_result.start_price = PlClose(pl_result.start_age)
                 /\ pl_result.change_pct =
                       ((pl_result.current_price - pl_result.start_price)
                            * 10000) \div pl_result.start_price

HeldQuantity(table, portfolio_id, symbol) ==
    IF RowsOfPair(table, portfolio_id, symbol) = {} THEN 0
    ELSE table[CHOOSE i \in RowsOfPair(table, portfolio_id, symbol) : TRUE].quantity

\* the holding rows of a pair, as a set of [quantity, avg_price]
PairContent(table, portfolio_id, symbol) ==
    {[quantity |-> table[i].quantity, avg_price |-> table[i].avg_price] :
        i \in RowsOfPair(table, portfolio_id, symbol)}

\* C27: after every step each (portfolio, symbol) pair has at most one
\* holding row and every stored quantity is positive; a step changes the
\* rows of at most one pair, and a call of update_portfolio_holding alone
\* (the history untouched) leaves the pair without a row or with one row.
C27_HoldingStep ==
    /\ \A id \in PortfolioIds : \A sym \in Symbols :
          Cardinality(RowsOfPair(holdings', id, sym)) <= 1
    /\ \A i \in 1..Len(holdings') : holdings'[i].quantity > 0
    /\ Cardinality({pair \in PortfolioIds \X Symbols :
            PairContent(holdings', pair[1], pair[2])
                # PairContent(holdings, pair[1], pair[2])}) <= 1
    /\ Len(holdings') <= Len(holdings) + 1
    /\ Len(holdings') >= Len(holdings) - 1

C27_OneRowPerHolding ==
    [][C27_HoldingStep]_vars

\* rows of three pairs, one of them rewritten, made by calls alone
C27_Witness ==
    /\ Len(holdings) = 3
    /\ transactions = <<>>
    /\ \E i \in 1..Len(holdings) :
          holdings[i].quantity = 2 /\ holdings[i].avg_price = 3000
    /\ \E i \in 1..Len(holdings) :
          holdings[i].quantity = 1 /\ holdings[i].avg_price = 0

\* C28: a SELL is added to the transaction history only when at least
\* that many units are held, and the holding then goes down by the units
\* sold; a SELL for more than is held leaves holdings and history as they
\* are.
C28_SellStep ==
    (/\ transactions' # transactions
     /\ transactions'[Len(transactions')].type = "SELL") =>
        LET t == transactions'[Len(transactions')]
            held == HeldQuantity(holdings, t.portfolio_id, t.symbol)
        IN  /\ held >= t.quantity
            /\ HeldQuantity(holdings', t.portfolio_id, t.symbol)
                  = held - t.quantity

C28_OversellLeavesNoTrace ==
    [][C28_SellStep]_vars

\* no two accounts with the same username, none with the same mobile
UsersUnique(table) ==
    \A i, j \in 1..Len(table) :
        i # j =>
            /\ table[i].mobile_number # table[j].mobile_number
            /\ table[i].username = table[j].username =>
                  table[i].username = NullText

\* C30: under every interleaving of register_user and
\* create_user_by_mobile calls no two accounts share a username or a
\* mobile number; a call returns (True, ...) exactly when its step added
\* one account, and a call that returns (False, message) added or changed
\* none.
C30_RegisterStep ==
    /\ UsersUnique(users')
    /\ \/ users' = users
       \/ /\ Len(users') = Len(users) + 1
          /\ SubSeq(users', 1, Len(users)) = users
    /\ \A p \in RegProcs :
          (reg[p].pc # "done" /\ reg'[p].pc = "done") =>
              /\ reg'[p].returned[1] <=> users' # users
              /\ reg'[p].returned[1] =>
                    /\ users'[Len(users')].mobile_number = reg[p].mobile
                    /\ users'[Len(users')].username = reg[p].username

C30_NoDuplicateAccounts ==
    [][C30_RegisterStep]_vars

\* both calls passed the SELECT with the same username; the second INSERT
\* was refused by the table
C30_Witness ==
    /\ Len(users) = 1
    /\ \A p \in RegProcs :
          /\ reg[p].pc = "done"
          /\ reg[p].kind = "register"
          /\ reg[p].existing = 0
          /\ reg[p].username = Ann
    /\ reg[1].returned[1]
    /\ reg[2].returned = <<FALSE, "Error: IntegrityError">>

\* C29: a session gets its user_id only from a login_form run whose
\* password matches the stored hash of the account, or from an otp_form run
\* in step verify_otp whose input equals auth_otp; the OTP login takes the
\* account whose mobile number is auth_mobile and removes auth_step,
\* auth_mobile and auth_otp; auth_otp and auth_mobile are only ever set
\* together, by the mobile_form run that drew the OTP for that number; and
\* without a user_id main renders the login page only.
C29_Step ==
    /\ (session.user_id = 0 /\ session'.user_id # 0) =>
          \/ /\ submitted'.form = "login_form"
             /\ \E i \in LoginRows(users, submitted'.identifier) :
                   /\ users[i].id = session'.user_id
                   /\ users[i].password_hash = HashOf(submitted'.password)
          \/ /\ submitted'.form = "otp_form"
             /\ session.auth_step = "verify_otp"
             /\ submitted'.otp_input = session.auth_otp
             /\ \E i \in 1..Len(users') :
                   /\ users'[i].id = session'.user_id
                   /\ users'[i].mobile_number = session.auth_mobile
             /\ session'.auth_step = "absent"
             /\ session'.auth_mobile = AbsentText
             /\ session'.auth_otp = AbsentText
    /\ (/\ session'.auth_step = "verify_otp"
        /\ \/ session'.auth_otp # session.auth_otp
           \/ session'.auth_mobile # session.auth_mobile
           \/ session.auth_step # "verify_otp") =>
          /\ submitted'.form = "mobile_form"
          /\ session'.auth_otp = submitted'.otp
          /\ session'.auth_mobile = submitted'.mobile
    /\ session'.user_id = 0 => page' = "login"

C29_AuthenticatedOnlyByProof ==
    [][C29_Step]_vars

\* an OTP login has created and entered the account of a number that had
\* none, next to the two stored accounts
C29_Witness ==
    /\ session.user_id # 0
    /\ submitted.form = "otp_form"
    /\ session.username = MobilePlusTen
    /\ session.auth_step = "absent"
    /\ Len(users) = 3

====
